---- MODULE Spec2Model ----
(***************************************************************************)
(* Model of the share server (github.com/Fileri/share/server): the blob +   *)
(* metadata store with its two backends (Filesystem, S3Storage), the HTTP   *)
(* handlers that upload and delete items, and the WebDAV adapter that       *)
(* presents one owner's items as a flat directory.                          *)
(*                                                                          *)
(* Strings are sequences of symbols.  A symbol is a valid piece of UTF-8    *)
(* text, the path separator "/", the byte 0xFF (never part of valid UTF-8) *)
(* or the rune U+FFFD.  Blobs are sequences of bytes.                       *)
(***************************************************************************)
EXTENDS Integers, Sequences, FiniteSets, TLC

\* ------------------------------------------------------------------ bounds
\* number of distinct ids generateID hands out in one run
MaxIds == 2
\* wall-clock readings are 0..MaxTime
MaxTime == 1
\* longest request body / longest single Write, in bytes
MaxLen == 1
\* largest configured size cap (limits.max_file_size), in bytes; 0 = unlimited
MaxCap == 1
\* most bytes the buffer of a write handle holds in the model
MaxBuf == 2
MaxPending == 2

\* ------------------------------------------------------------- vocabulary
Ids == 1..MaxIds
InvalidByte == "xFF"
ReplacementChar == "uFFFD"
Slash == "/"

\* auth.tokens of the configuration, and the tokens a request may present
Tokens == {<<"A">>, <<"B">>}
ReqTokens == Tokens \cup {<<>>, <<"Z">>}

\* blob bytes: 0 is a binary byte, 97 a text byte
Bytes == {0, 97}
Contents == UNION {[1..n -> Bytes] : n \in 0..MaxLen}

\* file names a client may send
FileNames == {<<>>, <<"a">>, <<InvalidByte>>}

Backends == {"filesystem", "s3"}

\* ------------------------------------------------------------ JSON codec
\* encoding/json coerces every string to valid UTF-8: each invalid byte
\* becomes U+FFFD
ToValidUTF8(s) == [i \in DOMAIN s |-> IF s[i] = InvalidByte THEN ReplacementChar ELSE s[i]]

\* the keys json.Marshal writes for an Item: `omitempty` drops an empty
\* filename and an empty owner_token
ItemKeys(item) ==
  {"id", "content_type", "size", "render_mode", "created_at"}
    \cup (IF item.filename = <<>> THEN {} ELSE {"filename"})
    \cup (IF item.owner_token = <<>> THEN {} ELSE {"owner_token"})

JSONValue(item, k) ==
  CASE k = "id" -> item.id
    [] k = "filename" -> ToValidUTF8(item.filename)
    [] k = "content_type" -> ToValidUTF8(item.content_type)
    [] k = "size" -> item.size
    [] k = "render_mode" -> ToValidUTF8(item.render_mode)
    [] k = "created_at" -> item.created_at
    [] k = "owner_token" -> ToValidUTF8(item.owner_token)

\* json.Marshal(item) / json.NewEncoder(f).Encode(item): a parseable document
MarshalItem(item) ==
  [parses |-> TRUE, doc |-> [k \in ItemKeys(item) |-> JSONValue(item, k)]]

\* a metadata file that was created but whose document was not written
TruncatedDoc == [parses |-> FALSE, doc |-> <<>>]

\* json Decode into a zero Item: a key that is absent leaves the zero value
DecodeItem(file) ==
  LET d == file.doc
      Str(k) == IF k \in DOMAIN d THEN d[k] ELSE <<>>
      Num(k) == IF k \in DOMAIN d THEN d[k] ELSE 0
  IN [id |-> Num("id"), filename |-> Str("filename"),
      content_type |-> Str("content_type"), size |-> Num("size"),
      render_mode |-> Str("render_mode"), created_at |-> Num("created_at"),
      owner_token |-> Str("owner_token")]

\* ------------------------------------------------------------- the medium
\* A store is [files, meta]: the blob area and the metadata area, each a
\* partial function from id (files/<id>, meta/<id>.json) to what is stored.
EmptyStore == [files |-> <<>>, meta |-> <<>>]

\* os.Remove / DeleteObject of one entry; removing an absent entry changes
\* nothing.  `ok` is whether the medium carries the removal out.
RemoveKey(area, id, ok) ==
  IF ok THEN [k \in (DOMAIN area) \ {id} |-> area[k]] ELSE area

\* a write that replaces the whole area by the one entry
WriteKeyAlone(area, id, v) == [k \in {id} |-> v]

\* os.Create + write / PutObject of one entry
WriteKey(area, id, v) ==
  [k \in (DOMAIN area) \cup {id} |-> IF k = id THEN v ELSE area[k]]

\* A content stream is [data, fails]: the bytes a reader yields and whether
\* it then ends in an error instead of EOF.
Stream(data) == [data |-> data, fails |-> FALSE]

\* A fault is [at, rmFiles, rmMeta]: the step of Put at which the medium fails
\* ("none": nowhere) and whether a removal in the blob area and in the
\* metadata area is carried out.
PutFaultPoints == {"none", "blob_store", "meta_create", "meta_store"}
NoFault == [at |-> "none", rmFiles |-> TRUE, rmMeta |-> TRUE]

\* the faults of a Put on backend `be`: a step of that backend's Put fails, and
\* the removals that follow are carried out or not.  S3Storage.Put has no
\* separate step that creates the metadata object.
PutFaults(be) ==
  {NoFault} \cup
  {f \in [at : PutFaultPoints \ {"none"}, rmFiles : BOOLEAN, rmMeta : BOOLEAN] :
     be = "s3" => f.at # "meta_create"}

\* the faults of a Delete: each of its two removals is carried out or not
DeleteFaults == [at : {"none"}, rmFiles : BOOLEAN, rmMeta : BOOLEAN]

\* ------------------------------------------------------ Filesystem backend
\* a Put that stores the metadata with the size the caller wrote in the item
FsPutCallerSize(S, id, stream, item, flt) ==
  [store |-> [files |-> WriteKey(S.files, id, stream.data),
              meta |-> WriteKey(S.meta, id, MarshalItem(item))],
   err |-> "nil"]

\* a Put that returns the metadata error and leaves the blob it wrote
FsPutKeepsBlob(S, id, stream, item, flt) ==
  IF flt.at = "blob_store"
    THEN [store |-> S, err |-> "failed to create file"]
  ELSE LET written == WriteKey(S.files, id, stream.data)
           sized == [item EXCEPT !.size = Len(stream.data)]
       IN IF stream.fails
            THEN [store |-> [S EXCEPT !.files = written], err |-> "failed to write file"]
          ELSE IF flt.at = "meta_create"
            THEN [store |-> [S EXCEPT !.files = written],
                  err |-> "failed to create metadata file"]
          ELSE IF flt.at = "meta_store"
            THEN [store |-> [S EXCEPT !.files = written],
                  err |-> "failed to write metadata"]
          ELSE [store |-> [files |-> written,
                           meta |-> WriteKey(S.meta, id, MarshalItem(sized))],
                err |-> "nil"]

\* a Put that leaves the bytes it copied when the copy of the stream fails
FsPutLeavesPartial(S, id, stream, item, flt) ==
  IF flt.at = "blob_store"
    THEN [store |-> S, err |-> "failed to create file"]
  ELSE LET written == WriteKey(S.files, id, stream.data)
           rolled == RemoveKey(written, id, flt.rmFiles)
           sized == [item EXCEPT !.size = Len(stream.data)]
       IN IF stream.fails
            THEN [store |-> [S EXCEPT !.files = written], err |-> "failed to write file"]
          ELSE IF flt.at = "meta_create"
            THEN [store |-> [S EXCEPT !.files = rolled],
                  err |-> "failed to create metadata file"]
          ELSE IF flt.at = "meta_store"
            THEN [store |-> [files |-> rolled,
                             meta |-> RemoveKey(WriteKey(S.meta, id, TruncatedDoc),
                                                id, flt.rmMeta)],
                  err |-> "failed to write metadata"]
          ELSE [store |-> [files |-> written,
                           meta |-> WriteKey(S.meta, id, MarshalItem(sized))],
                err |-> "nil"]

\* Filesystem.Put: create the blob file, copy the stream into it, set
\* item.Size, create the metadata file, encode the item; every failure after
\* the blob file exists removes what was written (removal errors ignored).
FsPut(S, id, stream, item, flt) ==
  IF flt.at = "blob_store"
    THEN [store |-> S, err |-> "failed to create file"]
  ELSE LET written == WriteKey(S.files, id, stream.data)
           rolled == RemoveKey(written, id, flt.rmFiles)
           sized == [item EXCEPT !.size = Len(stream.data)]
       IN IF stream.fails
            THEN [store |-> [S EXCEPT !.files = rolled], err |-> "failed to write file"]
          ELSE IF flt.at = "meta_create"
            THEN [store |-> [S EXCEPT !.files = rolled],
                  err |-> "failed to create metadata file"]
          ELSE IF flt.at = "meta_store"
            THEN [store |-> [files |-> rolled,
                             meta |-> RemoveKey(WriteKey(S.meta, id, TruncatedDoc),
                                                id, flt.rmMeta)],
                  err |-> "failed to write metadata"]
          ELSE [store |-> [files |-> written,
                           meta |-> WriteKey(S.meta, id, MarshalItem(sized))],
                err |-> "nil"]

\* Filesystem.GetMeta
FsGetMeta(S, id) ==
  IF id \notin DOMAIN S.meta THEN [err |-> "item not found"]
  ELSE IF ~S.meta[id].parses THEN [err |-> "failed to read metadata"]
  ELSE [err |-> "nil", item |-> DecodeItem(S.meta[id])]

\* a Get that reports a missing blob as a missing item
FsGetBlobAsItem(S, id) ==
  LET m == FsGetMeta(S, id)
  IN IF m.err # "nil" THEN [err |-> m.err]
     ELSE IF id \notin DOMAIN S.files THEN [err |-> "item not found"]
     ELSE [err |-> "nil", item |-> m.item, data |-> S.files[id]]

\* Filesystem.Get
FsGet(S, id) ==
  LET m == FsGetMeta(S, id)
  IN IF m.err # "nil" THEN [err |-> m.err]
     ELSE IF id \notin DOMAIN S.files THEN [err |-> "file not found"]
     ELSE [err |-> "nil", item |-> m.item, data |-> S.files[id]]

\* a Delete that removes the blob and leaves the metadata file
FsDeleteBlobOnly(S, id, flt) ==
  [store |-> [S EXCEPT !.files = RemoveKey(S.files, id, flt.rmFiles)], err |-> "nil"]

\* Filesystem.Delete: both removals, errors ignored
FsDelete(S, id, flt) ==
  [store |-> [files |-> RemoveKey(S.files, id, flt.rmFiles),
              meta |-> RemoveKey(S.meta, id, flt.rmMeta)],
   err |-> "nil"]

\* the ids of an area in the order a listing returns them: os.ReadDir sorts
\* by file name, ListObjectsV2 returns keys in byte order; ids are equally
\* long hex strings, so both are ascending id order
RECURSIVE Ascending(_)
Ascending(ids) ==
  IF ids = {} THEN <<>>
  ELSE LET lo == CHOOSE x \in ids : \A y \in ids : x <= y
       IN <<lo>> \o Ascending(ids \ {lo})

\* the `for ... range` loop of Filesystem.List over the listed ids: an id
\* whose GetMeta fails is skipped, an item of another owner is dropped
RECURSIVE FsScan(_, _, _)
FsScan(S, order, ownerToken) ==
  IF order = <<>> THEN <<>>
  ELSE LET m == FsGetMeta(S, Head(order))
           rest == FsScan(S, Tail(order), ownerToken)
       IN IF m.err = "nil" /\ m.item.owner_token = ownerToken
            THEN <<m.item>> \o rest
            ELSE rest

\* the less function Filesystem.List hands to sort.Slice
NewerFirst(a, b) == a.created_at > b.created_at

\* sort.Slice on at most 12 elements is insertionSortLessFunc:
\*   for i := 1; i < n; i++ { for j := i; j > 0 && less(j, j-1); j-- { swap } }
RECURSIVE SinkInto(_, _)
SinkInto(items, j) ==
  IF j > 1 /\ NewerFirst(items[j], items[j - 1])
    THEN SinkInto([items EXCEPT ![j] = items[j - 1], ![j - 1] = items[j]], j - 1)
    ELSE items

RECURSIVE InsertionSortFrom(_, _)
InsertionSortFrom(items, i) ==
  IF i > Len(items) THEN items
  ELSE InsertionSortFrom(SinkInto(items, i), i + 1)

SortSlice(items) == InsertionSortFrom(items, 2)

\* a List that forgets to compare item.OwnerToken with ownerToken
FsListEveryOwner(S, ownerToken) ==
  LET order == Ascending({id \in DOMAIN S.meta : S.meta[id].parses})
  IN [err |-> "nil",
      items |-> SortSlice([i \in DOMAIN order |-> DecodeItem(S.meta[order[i]])])]

\* a List that gives up at the first metadata record GetMeta fails on
FsListStopsAtBadRecord(S, ownerToken) ==
  IF \E id \in DOMAIN S.meta : FsGetMeta(S, id).err # "nil"
    THEN [err |-> "failed to read metadata"]
    ELSE [err |-> "nil",
          items |-> SortSlice(FsScan(S, Ascending(DOMAIN S.meta), ownerToken))]

\* Filesystem.List
FsList(S, ownerToken) ==
  [err |-> "nil", items |-> SortSlice(FsScan(S, Ascending(DOMAIN S.meta), ownerToken))]

\* -------------------------------------------------------------- S3 backend
\* S3Storage.Put: buffer the stream, set item.Size, PutObject the blob,
\* marshal the item, PutObject the metadata; when that last upload fails the
\* blob is deleted (deletion errors ignored).
S3Put(S, id, stream, item, flt) ==
  IF stream.fails THEN [store |-> S, err |-> "failed to read content"]
  ELSE IF flt.at = "blob_store" THEN [store |-> S, err |-> "failed to upload file"]
  ELSE LET written == WriteKey(S.files, id, stream.data)
           sized == [item EXCEPT !.size = Len(stream.data)]
       IN IF flt.at = "meta_store"
            THEN [store |-> [S EXCEPT !.files = RemoveKey(written, id, flt.rmFiles)],
                  err |-> "failed to upload metadata"]
            ELSE [store |-> [files |-> written,
                             meta |-> WriteKey(S.meta, id, MarshalItem(sized))],
                  err |-> "nil"]

\* S3Storage.GetMeta: every GetObject error reads "item not found"
S3GetMeta(S, id) ==
  IF id \notin DOMAIN S.meta THEN [err |-> "item not found"]
  ELSE IF ~S.meta[id].parses THEN [err |-> "failed to decode metadata"]
  ELSE [err |-> "nil", item |-> DecodeItem(S.meta[id])]

\* S3Storage.Get
S3Get(S, id) ==
  LET m == S3GetMeta(S, id)
  IN IF m.err # "nil" THEN [err |-> m.err]
     ELSE IF id \notin DOMAIN S.files THEN [err |-> "failed to get file"]
     ELSE [err |-> "nil", item |-> m.item, data |-> S.files[id]]

\* S3Storage.Delete: both DeleteObject calls, errors ignored
S3Delete(S, id, flt) ==
  [store |-> [files |-> RemoveKey(S.files, id, flt.rmFiles),
              meta |-> RemoveKey(S.meta, id, flt.rmMeta)],
   err |-> "nil"]

\* the loop of S3Storage.List over the keys of the pages: an id whose GetMeta
\* fails is skipped, an item of another owner is dropped
RECURSIVE S3Scan(_, _, _)
S3Scan(S, order, ownerToken) ==
  IF order = <<>> THEN <<>>
  ELSE LET m == S3GetMeta(S, Head(order))
           rest == S3Scan(S, Tail(order), ownerToken)
       IN IF m.err = "nil" /\ m.item.owner_token = ownerToken
            THEN <<m.item>> \o rest
            ELSE rest

\* S3Storage.List: the pages of ListObjectsV2 under "meta/", in key order;
\* the result is returned in that order
S3List(S, ownerToken) ==
  [err |-> "nil", items |-> S3Scan(S, Ascending(DOMAIN S.meta), ownerToken)]

\* ----------------------------------------------- the Storage interface
\* storage.New selects the backend by configuration; `be` is that choice
Put(be, S, id, stream, item, flt) ==
  IF be = "filesystem" THEN FsPut(S, id, stream, item, flt) ELSE S3Put(S, id, stream, item, flt)

Get(be, S, id) == IF be = "filesystem" THEN FsGet(S, id) ELSE S3Get(S, id)

GetMeta(be, S, id) == IF be = "filesystem" THEN FsGetMeta(S, id) ELSE S3GetMeta(S, id)

Delete(be, S, id, flt) ==
  IF be = "filesystem" THEN FsDelete(S, id, flt) ELSE S3Delete(S, id, flt)

List(be, S, ownerToken) ==
  IF be = "filesystem" THEN FsList(S, ownerToken) ELSE S3List(S, ownerToken)

\* ------------------------------------------------------------ api helpers
\* filepath.Ext of a file name: the model's names carry an extension as
\* their last symbol
Extensions == {".md", ".go"}
Ext(filename) ==
  IF filename # <<>> /\ filename[Len(filename)] \in Extensions
    THEN filename[Len(filename)] ELSE ""

\* http.DetectContentType on the model's bytes: a binary byte makes the
\* content application/octet-stream, text stays text/plain
SniffContentType(content) ==
  IF \E i \in DOMAIN content : content[i] = 0
    THEN <<"application/octet-stream">> ELSE <<"text/plain; charset=utf-8">>

\* detectContentType(filename, content)
DetectContentType(filename, content) ==
  IF Ext(filename) = ".md" THEN <<"text/markdown">>
  ELSE IF Ext(filename) = ".go" THEN <<"text/x-go">>
  ELSE IF Len(content) > 0 THEN SniffContentType(content)
  ELSE <<"text/plain">>

\* strings.TrimPrefix(name, "/") then strings.TrimSuffix(name, "/")
TrimPrefixSlash(name) == IF name # <<>> /\ Head(name) = Slash THEN Tail(name) ELSE name
TrimSuffixSlash(name) ==
  IF name # <<>> /\ name[Len(name)] = Slash THEN SubSeq(name, 1, Len(name) - 1) ELSE name
CleanPath(name) == TrimSuffixSlash(TrimPrefixSlash(name))

\* the test `name == "" || name == "/"` made on a cleaned path
IsRoot(name) == name = <<>> \/ name = <<Slash>>

\* an id as it is written in a path or a name
IdString(id) == <<ToString(id)>>

\* the name an item is shown under: its filename, or its id when it has none
DisplayName(item) == IF item.filename = <<>> THEN IdString(item.id) ELSE item.filename

\* ------------------------------------------------- WebDAV adapter, lookups
\* a lookup that takes the first listed item whatever its name
FirstListed(items, name) ==
  IF items = <<>> THEN [err |-> "ErrNotExist"] ELSE [err |-> "nil", item |-> Head(items)]

\* WebDAVHandler.findByFilename: the first item of the owner's List whose
\* display name is `name`
RECURSIVE FirstNamed(_, _)
FirstNamed(items, name) ==
  IF items = <<>> THEN [err |-> "ErrNotExist"]
  ELSE IF DisplayName(Head(items)) = name THEN [err |-> "nil", item |-> Head(items)]
  ELSE FirstNamed(Tail(items), name)

\* a lookup that searches the items of every configured token
FindByFilenameAnyOwner(be, S, token, name) ==
  LET all == Ascending({id \in DOMAIN S.meta : S.meta[id].parses})
  IN FirstNamed([i \in DOMAIN all |-> DecodeItem(S.meta[all[i]])], name)

FindByFilename(be, S, token, name) ==
  LET l == List(be, S, token)
  IN IF l.err # "nil" THEN [err |-> l.err] ELSE FirstNamed(l.items, name)

\* the davFileInfo of the root directory
RootInfo(t) == [name |-> <<Slash>>, size |-> 0, isDir |-> TRUE, modTime |-> t]

\* the davFileInfo Stat and openFile build for an item
ItemInfo(item) ==
  [name |-> item.filename, size |-> item.size, isDir |-> FALSE, modTime |-> item.created_at]

\* WebDAVHandler.Stat at wall-clock time t
Stat(be, S, token, path, t) ==
  LET name == CleanPath(path)
  IN IF IsRoot(name) THEN [err |-> "nil", info |-> RootInfo(t)]
     ELSE LET f == FindByFilename(be, S, token, name)
          IN IF f.err # "nil" THEN [err |-> f.err]
             ELSE [err |-> "nil", info |-> ItemInfo(f.item)]

\* WebDAVHandler.openFile: the read handle of an existing item
OpenFileRead(be, S, token, name) ==
  LET f == FindByFilename(be, S, token, name)
  IN IF f.err # "nil" THEN [err |-> f.err]
     ELSE LET g == Get(be, S, f.item.id)
          IN IF g.err # "nil" THEN [err |-> "ErrNotExist"]
             ELSE [err |-> "nil", info |-> ItemInfo(f.item), data |-> g.data]

\* a child descriptor named by the filename alone
ChildInfoNoFallback(item) ==
  [name |-> item.filename, size |-> item.size, isDir |-> FALSE,
   modTime |-> item.created_at]

\* the davFileInfo openRootDir builds for a child
ChildInfo(item) ==
  [name |-> DisplayName(item), size |-> item.size, isDir |-> FALSE,
   modTime |-> item.created_at]

\* WebDAVHandler.openRootDir: the directory handle of the root
OpenRootDir(be, S, token, t) ==
  LET l == List(be, S, token)
  IN IF l.err # "nil" THEN [err |-> l.err]
     ELSE [err |-> "nil", info |-> RootInfo(t),
           children |-> [i \in DOMAIN l.items |-> ChildInfo(l.items[i])], pos |-> 0]

\* a RemoveAll that looks the root up like any other name
RemoveAllNoRootCheck(be, S, token, path, flt) ==
  LET f == FindByFilename(be, S, token, CleanPath(path))
  IN IF f.err # "nil" THEN [store |-> S, err |-> f.err, id |-> 0]
     ELSE IF f.item.owner_token # token
       THEN [store |-> S, err |-> "ErrPermission", id |-> 0]
     ELSE [store |-> Delete(be, S, f.item.id, flt).store,
           err |-> Delete(be, S, f.item.id, flt).err, id |-> f.item.id]

\* a RemoveAll that deletes every item of the owner shown under the name
RemoveAllEveryMatch(be, S, token, path, flt) ==
  LET name == CleanPath(path)
      f == FindByFilename(be, S, token, name)
      items == List(be, S, token).items
      gone == {items[i].id : i \in {j \in DOMAIN items : DisplayName(items[j]) = name}}
  IN IF IsRoot(name) THEN [store |-> S, err |-> "ErrPermission", id |-> 0]
     ELSE IF f.err # "nil" THEN [store |-> S, err |-> f.err, id |-> 0]
     ELSE [store |-> [files |-> [k \in (DOMAIN S.files) \ gone |-> S.files[k]],
                      meta |-> [k \in (DOMAIN S.meta) \ gone |-> S.meta[k]]],
           err |-> "nil", id |-> f.item.id]

\* WebDAVHandler.RemoveAll: the store afterwards, the error returned and the
\* id handed to Delete (0: none)
RemoveAll(be, S, token, path, flt) ==
  LET name == CleanPath(path)
  IN IF IsRoot(name) THEN [store |-> S, err |-> "ErrPermission", id |-> 0]
     ELSE LET f == FindByFilename(be, S, token, name)
          IN IF f.err # "nil" THEN [store |-> S, err |-> f.err, id |-> 0]
             ELSE IF f.item.owner_token # token
               THEN [store |-> S, err |-> "ErrPermission", id |-> 0]
             ELSE [store |-> Delete(be, S, f.item.id, flt).store,
                   err |-> Delete(be, S, f.item.id, flt).err, id |-> f.item.id]

\* =================================================================== state
VARIABLES
  authTokens,   \* config.Auth.Tokens, handed to both handlers
  calls,        \* the Put and Delete calls under way, by goroutine: where each stands
  tui,          \* the terminal UI: its TUIState, the requests in flight, what is drawn
  backend,      \* storage.type of the configuration: which backend storage.New built
  maxFileSize,  \* Handler.maxFileSize / WebDAVHandler.maxFileSize; 0 means unlimited
  store,        \* the medium: [files, meta]
  usedIds,      \* the ids generateID has returned so far
  now,          \* the wall clock read by time.Now()
  handles,      \* the open davWriteFile handles, by connection
  puts,         \* history: for each id, the arguments of the Put that returned nil
  last,         \* the handler that ran last and the status or error it answered
  fault         \* history: the fault of the medium during that handler's run

vars == <<authTokens, calls, tui, backend, maxFileSize, store, usedIds, now, handles, puts, last, fault>>

\* Handler.isValidToken: an empty token is refused, then the configured
\* tokens are compared one by one
IsValidToken(token) == token # <<>> /\ \E t \in authTokens : t = token

\* WebDAVHandler.isValidToken: the configured tokens are compared one by one
DavIsValidToken(token) == \E t \in authTokens : t = token

\* the connections that can hold a write handle
Conns == {"c1", "c2"}

\* paths a WebDAV request may name
DavPaths ==
  {<<>>, <<Slash>>, <<Slash, "a">>, <<Slash, "a", Slash>>, <<Slash, InvalidByte>>,
   <<Slash, ReplacementChar>>} \cup {<<Slash>> \o IdString(id) : id \in Ids}

\* the paths the model's removal requests name
RemovePaths ==
  {<<Slash>>, <<Slash, "a">>, <<Slash, ReplacementChar>>, <<Slash>> \o IdString(1)}

\* a connection with no handle; its fields are the zero values
NoHandle ==
  [kind |-> "none", name |-> <<>>, token |-> <<>>, buffer |-> <<>>, maxFileSize |-> 0,
   closed |-> TRUE, rejected |-> FALSE, putCalls |-> 0, id |-> 0, written |-> <<>>,
   n |-> 0]
NoRequest == [op |-> "none", status |-> "nil"]

\* the goroutines that serve requests side by side
Procs == {"p1", "p2"}

\* a goroutine that is in no storage call
Idle ==
  [op |-> "idle", pc |-> "idle", id |-> 0, data |-> <<>>,
   item |-> [id |-> 0, filename |-> <<>>, content_type |-> <<>>, size |-> 0,
             render_mode |-> <<>>, created_at |-> 0, owner_token |-> <<>>]]

\* the terminal UI once runTUI has fetched the first list from an empty
\* store and drawn it: no item, nothing selected, no request in flight.
\* shown is what render drew last; requests counts the delete requests sent
\* since confirm-delete mode was entered and sentId is the id of the last one
TuiStart ==
  [items |-> <<>>, selectedIndex |-> 0, loading |-> FALSE, error |-> FALSE,
   confirmDelete |-> FALSE, pending |-> <<>>,
   shown |-> [loading |-> FALSE, items |-> <<>>, selectedIndex |-> 0,
              confirmDelete |-> FALSE],
   requests |-> 0, sentId |-> 0]

Init ==
  /\ authTokens = Tokens
  /\ backend \in Backends
  /\ maxFileSize \in 0..MaxCap
  /\ store = EmptyStore
  /\ usedIds = {}
  /\ now = 0
  /\ handles = [c \in Conns |-> NoHandle]
  /\ calls = [p \in Procs |-> Idle]
  /\ tui = TuiStart
  /\ puts = <<>>
  /\ last = NoRequest
  /\ fault = NoFault

\* a body of two bytes, longer than every limit of the model
TwoBytes == <<0, 97>>

\* the token lists a configuration file can give: config.Load takes
\* auth.tokens as written, an empty entry included
AuthConfigs == {Tokens, {<<"A">>, <<>>}}

\* the state after construction from any of these configurations
InitConfig ==
  /\ authTokens \in AuthConfigs
  /\ backend \in Backends
  /\ maxFileSize \in 0..MaxCap
  /\ store = EmptyStore
  /\ usedIds = {}
  /\ now = 0
  /\ handles = [c \in Conns |-> NoHandle]
  /\ calls = [p \in Procs |-> Idle]
  /\ tui = TuiStart
  /\ puts = <<>>
  /\ last = NoRequest
  /\ fault = NoFault

\* generateID: 12 random bytes; the model draws an id never returned before
FreshIds == Ids \ usedIds

\* the history after Put(id, data, item) returned err
Logged(id, data, item, err) ==
  IF err = "nil"
    THEN [k \in (DOMAIN puts) \cup {id} |-> IF k = id THEN [data |-> data, item |-> item]
                                                        ELSE puts[k]]
    ELSE puts

\* the history after Delete(id) was called
Unlogged(id) == [k \in (DOMAIN puts) \ {id} |-> puts[k]]

\* time.Now() moves on
Tick ==
  /\ now < MaxTime
  /\ now' = now + 1
  /\ UNCHANGED <<authTokens, calls, tui, backend, maxFileSize, store, usedIds, handles, puts, last, fault>>

\* http.MaxBytesReader(w, r.Body, n): at most n bytes, then an error
MaxBytesReader(body, n) ==
  IF Len(body) > n THEN [data |-> SubSeq(body, 1, n), fails |-> TRUE] ELSE Stream(body)

\* the error path a Put of `stream` takes on a medium disposed to fault flt:
\* a stream that fails ends the Put at the copy of the blob, before any
\* metadata write (S3Storage.Put reads the stream before it stores anything,
\* Filesystem.Put after it has created the blob file)
FaultTaken(be, stream, flt) ==
  IF stream.fails /\ (be = "s3" \/ flt.at # "blob_store")
    THEN [flt EXCEPT !.at = "blob_copy"]
    ELSE flt

\* Handler.handleUpload (POST /api/upload)
HandleUpload(token, filename, header, render, body, flt) ==
  IF ~IsValidToken(token)
    THEN /\ last' = [op |-> "upload", status |-> "401"]
         /\ fault' = NoFault
         /\ UNCHANGED <<authTokens, calls, tui, backend, maxFileSize, store, usedIds, now, handles, puts>>
    ELSE \E id \in FreshIds :
           LET content == IF maxFileSize > 0 THEN MaxBytesReader(body, maxFileSize)
                          ELSE Stream(body)
               contentType == IF header = <<>> \/ header = <<"application/octet-stream">>
                                THEN DetectContentType(filename, <<>>) ELSE header
               renderMode == IF render = <<>> THEN <<"auto">> ELSE render
               item == [id |-> id, filename |-> filename, content_type |-> contentType,
                        size |-> 0, render_mode |-> renderMode, created_at |-> now,
                        owner_token |-> token]
               r == Put(backend, store, id, content, item, flt)
           IN /\ usedIds' = usedIds \cup {id}
              /\ store' = r.store
              /\ puts' = Logged(id, content.data, item, r.err)
              /\ last' = [op |-> "upload",
                          status |-> IF r.err = "nil" THEN "201" ELSE "500"]
              /\ fault' = FaultTaken(backend, content, flt)
              /\ UNCHANGED <<authTokens, calls, tui, backend, maxFileSize, now, handles>>

\* a delete handler that does not compare the item's owner with the token
DeleteRequestAnyOwner(be, S, token, id, flt) ==
  LET m == GetMeta(be, S, id)
      d == Delete(be, S, id, flt)
  IN IF ~IsValidToken(token) THEN [status |-> "401", store |-> S, called |-> FALSE]
     ELSE IF id = 0 THEN [status |-> "400", store |-> S, called |-> FALSE]
     ELSE IF m.err # "nil" THEN [status |-> "404", store |-> S, called |-> FALSE]
     ELSE [status |-> IF d.err # "nil" THEN "500" ELSE "204", store |-> d.store,
           called |-> TRUE]

\* Handler.handleDelete (DELETE /api/delete/<id>) as a function of the store:
\* the status answered, the store afterwards and whether storage.Delete was
\* called.  id 0 stands for the empty id.
DeleteRequest(be, S, token, id, flt) ==
  LET m == GetMeta(be, S, id)
      d == Delete(be, S, id, flt)
  IN IF ~IsValidToken(token) THEN [status |-> "401", store |-> S, called |-> FALSE]
     ELSE IF id = 0 THEN [status |-> "400", store |-> S, called |-> FALSE]
     ELSE IF m.err # "nil" THEN [status |-> "404", store |-> S, called |-> FALSE]
     ELSE IF m.item.owner_token # token THEN [status |-> "403", store |-> S, called |-> FALSE]
     ELSE [status |-> IF d.err # "nil" THEN "500" ELSE "204", store |-> d.store,
           called |-> TRUE]

HandleDelete(token, id, flt) ==
  LET r == DeleteRequest(backend, store, token, id, flt)
  IN /\ last' = [op |-> "delete", status |-> r.status]
     /\ store' = r.store
     /\ puts' = IF r.called THEN Unlogged(id) ELSE puts
     /\ fault' = IF r.called THEN flt ELSE NoFault
     /\ UNCHANGED <<authTokens, calls, tui, backend, maxFileSize, usedIds, now, handles>>

\* an open for write that creates the blob of a new id at once
DavOpenWriteCreates(c, token, path) ==
  /\ DavIsValidToken(token)
  /\ ~IsRoot(CleanPath(path))
  /\ handles[c].closed
  /\ \E id \in FreshIds :
       /\ store' = [store EXCEPT !.files = WriteKey(store.files, id, <<>>)]
       /\ usedIds' = usedIds \cup {id}
  /\ handles' = [handles EXCEPT ![c] =
       [kind |-> "write", name |-> CleanPath(path), token |-> token, buffer |-> <<>>,
        maxFileSize |-> maxFileSize, closed |-> FALSE,
        rejected |-> FALSE, putCalls |-> 0, id |-> 0, written |-> <<>>, n |-> 0]]
  /\ last' = [op |-> "open", status |-> "nil"]
  /\ UNCHANGED <<authTokens, calls, tui, backend, maxFileSize, now, puts, fault>>

\* WebDAVHandler.OpenFile with write-intent flags on a path that is not the
\* root: createFile hands out a fresh davWriteFile.  The connection's earlier
\* handle, if any, has been closed.  (ServeHTTP lets only a configured token
\* through.)
DavOpenWrite(c, token, path) ==
  /\ DavIsValidToken(token)
  /\ ~IsRoot(CleanPath(path))
  /\ handles[c].closed
  /\ handles' = [handles EXCEPT ![c] =
       [kind |-> "write", name |-> CleanPath(path), token |-> token, buffer |-> <<>>,
        maxFileSize |-> maxFileSize, closed |-> FALSE,
        rejected |-> FALSE, putCalls |-> 0, id |-> 0, written |-> <<>>, n |-> 0]]
  /\ last' = [op |-> "open", status |-> "nil"]
  /\ UNCHANGED <<authTokens, calls, tui, backend, maxFileSize, store, usedIds, now, puts, fault>>

\* a Write that appends whatever the cap is
WriteFileNoCap(f, p) == [buffer |-> f.buffer \o p, n |-> Len(p), err |-> "nil"]

\* davWriteFile.Write(p) on handle f: the buffer afterwards, the byte count
\* and the error returned
WriteFile(f, p) ==
  IF f.maxFileSize > 0 /\ Len(f.buffer) + Len(p) > f.maxFileSize
    THEN [buffer |-> f.buffer, n |-> 0, err |-> "file too large"]
    ELSE [buffer |-> f.buffer \o p, n |-> Len(p), err |-> "nil"]

\* a Write that flushes the buffer to the medium as it goes
DavWriteThrough(c, p) ==
  LET f == handles[c]
      w == WriteFile(f, p)
  IN /\ f.kind = "write"
     /\ handles' = [handles EXCEPT
          ![c].buffer = w.buffer,
          ![c].n = w.n,
          ![c].rejected = f.rejected \/ w.err # "nil",
          ![c].written = IF f.closed \/ w.err # "nil" THEN f.written ELSE f.written \o p]
     /\ store' = [store EXCEPT !.files = WriteKey(store.files, 0, w.buffer)]
     /\ last' = [op |-> "write", status |-> w.err]
     /\ UNCHANGED <<authTokens, calls, tui, backend, maxFileSize, usedIds, now, puts, fault>>

\* a Write whose bytes go to the buffer of every open write handle
DavWriteShared(c, p) ==
  LET f == handles[c]
      w == WriteFile(f, p)
  IN /\ f.kind = "write"
     /\ handles' = [d \in Conns |->
          IF d = c
            THEN [f EXCEPT !.buffer = w.buffer, !.n = w.n,
                           !.rejected = f.rejected \/ w.err # "nil",
                           !.written = IF f.closed \/ w.err # "nil" THEN f.written
                                       ELSE f.written \o p]
          ELSE IF handles[d].kind = "write" /\ ~handles[d].closed /\ w.err = "nil"
            THEN [handles[d] EXCEPT !.buffer = handles[d].buffer \o p]
          ELSE handles[d]]
     /\ last' = [op |-> "write", status |-> w.err]
     /\ UNCHANGED <<authTokens, calls, tui, backend, maxFileSize, store, usedIds, now, puts, fault>>

\* a Write that opens a closed handle again
DavWriteReopens(c, p) ==
  LET f == handles[c]
      w == WriteFile(f, p)
  IN /\ f.kind = "write"
     /\ handles' = [handles EXCEPT
          ![c].buffer = w.buffer,
          ![c].n = w.n,
          ![c].closed = FALSE,
          ![c].rejected = f.rejected \/ w.err # "nil",
          ![c].written = IF f.closed \/ w.err # "nil" THEN f.written ELSE f.written \o p]
     /\ last' = [op |-> "write", status |-> w.err]
     /\ UNCHANGED <<authTokens, calls, tui, backend, maxFileSize, store, usedIds, now, puts, fault>>

\* a Write call on the handle of connection c.  `rejected` remembers that
\* some Write was refused, `n` is the byte count the call returned, `written`
\* the bytes of the Writes accepted before the first Close, in call order.
DavWrite(c, p) ==
  LET f == handles[c]
      w == WriteFile(f, p)
  IN /\ f.kind = "write"
     /\ handles' = [handles EXCEPT
          ![c].buffer = w.buffer,
          ![c].n = w.n,
          ![c].rejected = f.rejected \/ w.err # "nil",
          ![c].written = IF f.closed \/ w.err # "nil" THEN f.written ELSE f.written \o p]
     /\ last' = [op |-> "write", status |-> w.err]
     /\ UNCHANGED <<authTokens, calls, tui, backend, maxFileSize, store, usedIds, now, puts, fault>>

\* a Close that does not look at `closed` and commits on every call
DavCloseEveryTime(c, flt) ==
  LET f == handles[c]
  IN /\ f.kind = "write"
     /\ \E id \in FreshIds :
          LET item == [id |-> id, filename |-> f.name,
                       content_type |-> DetectContentType(f.name, f.buffer),
                       size |-> 0, render_mode |-> <<"auto">>, created_at |-> now,
                       owner_token |-> f.token]
              r == Put(backend, store, id, Stream(f.buffer), item, flt)
          IN /\ usedIds' = usedIds \cup {id}
             /\ store' = r.store
             /\ puts' = Logged(id, f.buffer, item, r.err)
             /\ handles' = [handles EXCEPT ![c].closed = TRUE,
                                           ![c].putCalls = f.putCalls + 1,
                                           ![c].id = id,
                                           ![c].buffer = <<>>]
             /\ last' = [op |-> "close", status |-> r.err]
             /\ fault' = flt
             /\ UNCHANGED <<authTokens, calls, tui, backend, maxFileSize, now>>

\* davWriteFile.Close.  `putCalls` counts the calls of storage.Put, `id` is the
\* id generated for the commit.  Put drains the buffer it is handed, unless
\* it fails before reading it.
DavClose(c, flt) ==
  LET f == handles[c]
  IN /\ f.kind = "write"
     /\ IF f.closed
          THEN /\ last' = [op |-> "close", status |-> "nil"]
               /\ UNCHANGED <<authTokens, calls, tui, backend, maxFileSize, store, usedIds, now, handles, puts, fault>>
          ELSE \E id \in FreshIds :
                 LET item == [id |-> id, filename |-> f.name,
                              content_type |-> DetectContentType(f.name, f.buffer),
                              size |-> 0, render_mode |-> <<"auto">>, created_at |-> now,
                              owner_token |-> f.token]
                     r == Put(backend, store, id, Stream(f.buffer), item, flt)
                     unread == backend = "filesystem" /\ flt.at = "blob_store"
                 IN /\ usedIds' = usedIds \cup {id}
                    /\ store' = r.store
                    /\ puts' = Logged(id, f.buffer, item, r.err)
                    /\ handles' = [handles EXCEPT ![c].closed = TRUE,
                                                  ![c].putCalls = f.putCalls + 1,
                                                  ![c].id = id,
                                                  ![c].buffer = IF unread THEN f.buffer ELSE <<>>]
                    /\ last' = [op |-> "close", status |-> r.err]
                    /\ fault' = flt
                    /\ UNCHANGED <<authTokens, calls, tui, backend, maxFileSize, now>>

\* WebDAVHandler.RemoveAll under an authenticated token
DavRemoveAll(token, path, flt) ==
  LET r == RemoveAll(backend, store, token, path, flt)
  IN /\ DavIsValidToken(token)
     /\ store' = r.store
     /\ puts' = IF r.id # 0 THEN Unlogged(r.id) ELSE puts
     /\ last' = [op |-> "removeall", status |-> r.err]
     /\ fault' = IF r.id # 0 THEN flt ELSE NoFault
     /\ UNCHANGED <<authTokens, calls, tui, backend, maxFileSize, usedIds, now, handles>>

\* WebDAVHandler.Mkdir: refused, the store is not looked at
Mkdir(be, S, token, name) == [store |-> S, err |-> "ErrPermission"]

\* a Rename that rewrites the filename of the owner's item named oldName
RenameItem(be, S, token, oldName, newName) ==
  LET f == FindByFilename(be, S, token, CleanPath(oldName))
  IN IF f.err # "nil" THEN [store |-> S, err |-> f.err]
     ELSE [store |-> [S EXCEPT !.meta = WriteKey(S.meta, f.item.id,
                        MarshalItem([f.item EXCEPT !.filename = CleanPath(newName)]))],
           err |-> "nil"]

\* WebDAVHandler.Rename: refused, the store is not looked at
Rename(be, S, token, oldName, newName) == [store |-> S, err |-> "ErrPermission"]

\* a MKCOL request under an authenticated token
DavMkdir(token, path) ==
  LET r == Mkdir(backend, store, token, path)
  IN /\ DavIsValidToken(token)
     /\ store' = r.store
     /\ last' = [op |-> "mkdir", status |-> r.err]
     /\ UNCHANGED <<authTokens, calls, tui, backend, maxFileSize, usedIds, now, handles, puts, fault>>

\* a MOVE request under an authenticated token
DavRename(token, oldName, newName) ==
  LET r == Rename(backend, store, token, oldName, newName)
  IN /\ DavIsValidToken(token)
     /\ store' = r.store
     /\ last' = [op |-> "rename", status |-> r.err]
     /\ UNCHANGED <<authTokens, calls, tui, backend, maxFileSize, usedIds, now, handles, puts, fault>>

\* a Readdir that never signals the end of the sequence
ReaddirNoEOF(d, count) ==
  LET left == Len(d.children) - d.pos
      k == IF count <= 0 \/ count > left THEN left ELSE count
  IN [pos |-> d.pos + k, result |-> SubSeq(d.children, d.pos + 1, d.pos + k),
      err |-> "nil"]

\* davDir.Readdir(count) on a directory handle d: the position afterwards,
\* the entries and the error returned
Readdir(d, count) ==
  IF d.pos >= Len(d.children)
    THEN [pos |-> d.pos, result |-> <<>>, err |-> IF count <= 0 THEN "nil" ELSE "EOF"]
    ELSE LET k == IF count <= 0 \/ count > Len(d.children) - d.pos
                    THEN Len(d.children) - d.pos ELSE count
         IN [pos |-> d.pos + k, result |-> SubSeq(d.children, d.pos + 1, d.pos + k),
             err |-> "nil"]

\* the handle OpenFile returns for the root: a davDir at position 0.  `out`
\* collects the entries its Readdir calls have returned, in call order.
DirHandle(token, d) ==
  [kind |-> "dir", name |-> <<Slash>>, token |-> token, buffer |-> <<>>, maxFileSize |-> 0,
   closed |-> TRUE, rejected |-> FALSE, putCalls |-> 0, id |-> 0, written |-> <<>>,
   n |-> 0, children |-> d.children, pos |-> d.pos, out |-> <<>>]

\* WebDAVHandler.OpenFile on the root path under an authenticated token
DavOpenDir(c, token, path) ==
  LET d == OpenRootDir(backend, store, token, now)
  IN /\ DavIsValidToken(token)
     /\ IsRoot(CleanPath(path))
     /\ d.err = "nil"
     /\ handles' = [handles EXCEPT ![c] = DirHandle(token, d)]
     /\ last' = [op |-> "opendir", status |-> "nil"]
     /\ UNCHANGED <<authTokens, calls, tui, backend, maxFileSize, store, usedIds, now, puts, fault>>

\* a Readdir call on the directory handle of connection c
DavReaddir(c, count) ==
  LET d == handles[c]
      r == Readdir(d, count)
  IN /\ d.kind = "dir"
     /\ handles' = [handles EXCEPT ![c].pos = r.pos, ![c].out = d.out \o r.result,
                                   ![c].n = Len(r.result)]
     /\ last' = [op |-> "readdir", status |-> r.err]
     /\ UNCHANGED <<authTokens, calls, tui, backend, maxFileSize, store, usedIds, now, puts, fault>>

\* ------------------------------------------------------------ read handles
\* the handle openFile returns: a davFile whose bytes.Reader holds the bytes
\* io.ReadAll took from the blob.  `off` is the reader's index, `out` the
\* bytes the last Read returned, `id` remembers the item that was opened.
FileHandle(token, o, id) ==
  [kind |-> "read", name |-> o.info.name, token |-> token, buffer |-> <<>>,
   maxFileSize |-> 0, closed |-> TRUE, rejected |-> FALSE, putCalls |-> 0, id |-> id,
   written |-> <<>>, n |-> 0, data |-> o.data, off |-> 0, out |-> <<>>]

\* WebDAVHandler.OpenFile without write flags on a path that is not the root
DavOpenFile(c, token, path) ==
  LET name == CleanPath(path)
      o == OpenFileRead(backend, store, token, name)
  IN /\ DavIsValidToken(token)
     /\ ~IsRoot(name)
     /\ handles[c].closed
     /\ handles' = IF o.err = "nil"
          THEN [handles EXCEPT ![c] =
                  FileHandle(token, o, FindByFilename(backend, store, token, name).item.id)]
          ELSE handles
     /\ last' = [op |-> "openfile", status |-> o.err]
     /\ UNCHANGED <<authTokens, calls, tui, backend, maxFileSize, store, usedIds, now, puts, fault>>

\* bytes.Reader.Read into a slice of length n, on reader bytes s at index i
ReaderRead(s, i, n) ==
  IF i >= Len(s) THEN [n |-> 0, out |-> <<>>, off |-> i, err |-> "EOF"]
  ELSE LET k == IF n < Len(s) - i THEN n ELSE Len(s) - i
       IN [n |-> k, out |-> SubSeq(s, i + 1, i + k), off |-> i + k, err |-> "nil"]

\* bytes.Reader.Seek: whence 0 from the start, 1 from the index, 2 from the end
ReaderSeek(s, i, offset, whence) ==
  LET abs == CASE whence = 0 -> offset [] whence = 1 -> i + offset
               [] OTHER -> Len(s) + offset
  IN IF whence \notin {0, 1, 2} THEN [off |-> i, err |-> "invalid whence"]
     ELSE IF abs < 0 THEN [off |-> i, err |-> "negative position"]
     ELSE [off |-> abs, err |-> "nil"]

\* a Read that takes the bytes from the blob the store holds now
DavReadFromStore(c, n) ==
  LET f == handles[c]
      blob == IF f.id \in DOMAIN store.files THEN store.files[f.id] ELSE <<>>
      r == ReaderRead(blob, f.off, n)
  IN /\ f.kind = "read"
     /\ handles' = [handles EXCEPT ![c].off = r.off, ![c].out = r.out, ![c].n = r.n]
     /\ last' = [op |-> "read", status |-> r.err]
     /\ UNCHANGED <<authTokens, calls, tui, backend, maxFileSize, store, usedIds, now, puts, fault>>

\* davFile.Read(p) with len(p) = n on the handle of connection c
DavRead(c, n) ==
  LET f == handles[c]
      r == ReaderRead(f.data, f.off, n)
  IN /\ f.kind = "read"
     /\ handles' = [handles EXCEPT ![c].off = r.off, ![c].out = r.out, ![c].n = r.n]
     /\ last' = [op |-> "read", status |-> r.err]
     /\ UNCHANGED <<authTokens, calls, tui, backend, maxFileSize, store, usedIds, now, puts, fault>>

\* davFile.Seek(offset, whence)
DavSeek(c, offset, whence) ==
  LET f == handles[c]
      r == ReaderSeek(f.data, f.off, offset, whence)
  IN /\ f.kind = "read"
     /\ handles' = [handles EXCEPT ![c].off = r.off]
     /\ last' = [op |-> "seek", status |-> r.err]
     /\ UNCHANGED <<authTokens, calls, tui, backend, maxFileSize, store, usedIds, now, puts, fault>>

\* davFile.Write(p): refused, nothing is looked at
DavFileWrite(c, p) ==
  /\ handles[c].kind = "read"
  /\ last' = [op |-> "filewrite", status |-> "ErrInvalid"]
  /\ UNCHANGED <<authTokens, calls, tui, backend, maxFileSize, store, usedIds, now, handles, puts, fault>>

\* ------------------------------------------------- WebDAV, authentication
\* An Authorization header is [present, scheme, cred]: cred is the decoded
\* credential string, user-id ":" password.
Colon == ":"
NoHeader == [present |-> FALSE, scheme |-> "", cred |-> <<>>]
BasicHeader(username, password) ==
  [present |-> TRUE, scheme |-> "Basic", cred |-> username \o <<Colon>> \o password]

\* the index of the first colon of a string, 0 when it has none
FirstColon(s) ==
  IF \E i \in DOMAIN s : s[i] = Colon
    THEN CHOOSE i \in DOMAIN s : s[i] = Colon /\ \A j \in 1..(i - 1) : s[j] # Colon
    ELSE 0

\* a parser of credentials that hands the user-id out as the password
BasicAuthUserAsPassword(h) ==
  LET k == FirstColon(h.cred)
  IN IF ~h.present \/ h.scheme # "Basic" \/ k = 0
       THEN [ok |-> FALSE, username |-> <<>>, password |-> <<>>]
       ELSE [ok |-> TRUE, username |-> SubSeq(h.cred, k + 1, Len(h.cred)),
             password |-> SubSeq(h.cred, 1, k - 1)]

\* http.Request.BasicAuth: the header must be there, of scheme Basic, and
\* hold a colon; the user-id is what stands before the first colon, the
\* password everything after it
BasicAuth(h) ==
  LET k == FirstColon(h.cred)
  IN IF ~h.present \/ h.scheme # "Basic" \/ k = 0
       THEN [ok |-> FALSE, username |-> <<>>, password |-> <<>>]
       ELSE [ok |-> TRUE, username |-> SubSeq(h.cred, 1, k - 1),
             password |-> SubSeq(h.cred, k + 1, Len(h.cred))]

\* WebDAVHandler.ServeHTTP as a function of the store, for the methods
\* DELETE (RemoveAll) and PROPFIND (Stat): the status answered, the store
\* afterwards and whether the file system was called
DavRequest(be, S, h, method, path, t) ==
  LET a == BasicAuth(h)
      token == a.password
  IN IF ~a.ok \/ ~DavIsValidToken(token)
       THEN [status |-> "401", store |-> S, called |-> FALSE]
     ELSE IF method = "DELETE"
       THEN LET r == RemoveAll(be, S, token, path, NoFault)
            IN [status |-> r.err, store |-> r.store, called |-> TRUE]
     ELSE [status |-> Stat(be, S, token, path, t).err, store |-> S, called |-> TRUE]

\* a WebDAV request with Authorization header h arrives
ServeHTTP(h, method, path) ==
  LET r == DavRequest(backend, store, h, method, path, now)
  IN /\ store' = r.store
     /\ puts' = [k \in (DOMAIN puts) \cap DOMAIN r.store.meta |-> puts[k]]
     /\ last' = [op |-> method, status |-> r.status]
     /\ UNCHANGED <<authTokens, calls, tui, backend, maxFileSize, usedIds, now, handles, fault>>

\* --------------------------------------- the Storage interface, called direct
\* the items a caller may hand to Put(id, ...): any size field, any owner
CallerSizes == {0, 7}
CallerItems(id) ==
  {[id |-> id, filename |-> fn, content_type |-> DetectContentType(fn, <<>>), size |-> sz,
    render_mode |-> <<"auto">>, created_at |-> t, owner_token |-> tk] :
     fn \in {<<>>, <<"a">>}, sz \in CallerSizes, t \in 0..MaxTime, tk \in Tokens}

\* a call Storage.Put(ctx, id, content, item) that runs to its return
PutCall(id, data, item, flt) ==
  LET r == Put(backend, store, id, Stream(data), item, flt)
  IN /\ store' = r.store
     /\ usedIds' = usedIds \cup {id}
     /\ puts' = Logged(id, data, item, r.err)
     /\ last' = [op |-> "Put", status |-> r.err]
     /\ fault' = flt
     /\ UNCHANGED <<authTokens, calls, tui, backend, maxFileSize, now, handles>>

\* a call Storage.Delete(ctx, id) that runs to its return
DeleteCall(id, flt) ==
  LET r == Delete(backend, store, id, flt)
  IN /\ store' = r.store
     /\ puts' = Unlogged(id)
     /\ last' = [op |-> "Delete", status |-> r.err]
     /\ fault' = flt
     /\ UNCHANGED <<authTokens, calls, tui, backend, maxFileSize, usedIds, now, handles>>

\* ------------------------------- the Storage calls, one medium access a step
\* Put(id, content, item) begins.  Filesystem.Put creates the blob file,
\* empty; S3Storage.Put reads the content into its buffer and has stored
\* nothing yet.
PutStart(p, id, data, item) ==
  /\ calls[p].op = "idle"
  /\ calls' = [calls EXCEPT ![p] = [op |-> "Put", pc |-> "copy", id |-> id,
                                     data |-> data, item |-> item]]
  /\ usedIds' = usedIds \cup {id}
  /\ store' = IF backend = "filesystem"
                THEN [store EXCEPT !.files = WriteKey(store.files, id, <<>>)]
                ELSE store
  /\ UNCHANGED <<authTokens, tui, backend, maxFileSize, now, handles, puts, last, fault>>

\* io.Copy into the blob file / PutObject of files/<id>
PutBlob(p) ==
  /\ calls[p].pc = "copy"
  /\ store' = [store EXCEPT !.files = WriteKey(store.files, calls[p].id, calls[p].data)]
  /\ calls' = [calls EXCEPT ![p].pc = IF backend = "filesystem" THEN "meta_create"
                                       ELSE "meta",
                            ![p].item.size = Len(calls[p].data)]
  /\ UNCHANGED <<authTokens, tui, backend, maxFileSize, usedIds, now, handles, puts, last, fault>>

\* Filesystem.Put: os.Create of the metadata file, empty until it is encoded
PutMetaCreate(p) ==
  /\ calls[p].pc = "meta_create"
  /\ store' = [store EXCEPT !.meta = WriteKey(store.meta, calls[p].id, TruncatedDoc)]
  /\ calls' = [calls EXCEPT ![p].pc = "meta"]
  /\ UNCHANGED <<authTokens, tui, backend, maxFileSize, usedIds, now, handles, puts, last, fault>>

\* Encode into the metadata file / PutObject of meta/<id>.json; Put returns
PutMeta(p) ==
  /\ calls[p].pc = "meta"
  /\ store' = [store EXCEPT !.meta = WriteKey(store.meta, calls[p].id,
                                               MarshalItem(calls[p].item))]
  /\ puts' = Logged(calls[p].id, calls[p].data, calls[p].item, "nil")
  /\ last' = [op |-> "Put", status |-> "nil"]
  /\ calls' = [calls EXCEPT ![p] = Idle]
  /\ UNCHANGED <<authTokens, tui, backend, maxFileSize, usedIds, now, handles, fault>>

\* Delete(id) begins: the blob is removed first
DeleteStart(p, id) ==
  /\ calls[p].op = "idle"
  /\ store' = [store EXCEPT !.files = RemoveKey(store.files, id, TRUE)]
  /\ calls' = [calls EXCEPT ![p] = [Idle EXCEPT !.op = "Delete", !.pc = "remove_meta", !.id = id]]
  /\ UNCHANGED <<authTokens, tui, backend, maxFileSize, usedIds, now, handles, puts, last, fault>>

\* the metadata is removed second; Delete returns nil
DeleteEnd(p) ==
  /\ calls[p].pc = "remove_meta"
  /\ store' = [store EXCEPT !.meta = RemoveKey(store.meta, calls[p].id, TRUE)]
  /\ puts' = Unlogged(calls[p].id)
  /\ last' = [op |-> "Delete", status |-> "nil"]
  /\ calls' = [calls EXCEPT ![p] = Idle]
  /\ UNCHANGED <<authTokens, tui, backend, maxFileSize, usedIds, now, handles, fault>>

\* ------------------------------------------------------------ size limits
\* strings are sequences of one-character strings
Digits == <<"0", "1", "2", "3", "4", "5", "6", "7", "8", "9">>
IsDigit(ch) == \E i \in DOMAIN Digits : Digits[i] = ch
DigitValue(ch) == (CHOOSE i \in DOMAIN Digits : Digits[i] = ch) - 1

\* strings.ToUpper on the letters of the model
UpperOf(ch) ==
  CASE ch = "k" -> "K" [] ch = "m" -> "M" [] ch = "g" -> "G" [] ch = "b" -> "B"
    [] ch = "x" -> "X" [] OTHER -> ch
ToUpper(s) == [i \in DOMAIN s |-> UpperOf(s[i])]

\* strings.TrimSpace
RECURSIVE TrimLeft(_)
TrimLeft(s) == IF s # <<>> /\ Head(s) = " " THEN TrimLeft(Tail(s)) ELSE s
RECURSIVE TrimRight(_)
TrimRight(s) ==
  IF s # <<>> /\ s[Len(s)] = " " THEN TrimRight(SubSeq(s, 1, Len(s) - 1)) ELSE s
TrimSpace(s) == TrimRight(TrimLeft(s))

\* strings.HasSuffix, strings.TrimSuffix
HasSuffix(s, suf) ==
  Len(s) >= Len(suf) /\ SubSeq(s, Len(s) - Len(suf) + 1, Len(s)) = suf
TrimSuffix(s, suf) == IF HasSuffix(s, suf) THEN SubSeq(s, 1, Len(s) - Len(suf)) ELSE s

\* the longest prefix of s made of digits
RECURSIVE DigitPrefix(_)
DigitPrefix(s) ==
  IF s # <<>> /\ IsDigit(Head(s)) THEN <<Head(s)>> \o DigitPrefix(Tail(s)) ELSE <<>>

\* the number a sequence of digits writes in base ten
RECURSIVE Decimal(_)
Decimal(ds) ==
  IF ds = <<>> THEN 0 ELSE 10 * Decimal(SubSeq(ds, 1, Len(ds) - 1)) + DigitValue(ds[Len(ds)])

\* fmt.Sscanf(s, "%d", &size) with size zero before: an optional sign and the
\* digits that follow; the rest of s is not looked at; without a digit the
\* scan fails and size stays 0 (the error is not looked at)
Sscanf(s) ==
  LET signed == s # <<>> /\ Head(s) \in {"-", "+"}
      ds == DigitPrefix(IF signed THEN Tail(s) ELSE s)
  IN IF ds = <<>> THEN 0
     ELSE IF signed /\ Head(s) = "-" THEN 0 - Decimal(ds) ELSE Decimal(ds)

KB == 1024
MB == 1024 * 1024
GB == 1024 * 1024 * 1024

\* parseSize
parseSize(str) ==
  LET s == ToUpper(TrimSpace(str))
      multiplier == CASE HasSuffix(s, <<"G", "B">>) -> GB
                      [] HasSuffix(s, <<"M", "B">>) -> MB
                      [] HasSuffix(s, <<"K", "B">>) -> KB
                      [] OTHER -> 1
      rest == CASE HasSuffix(s, <<"G", "B">>) -> TrimSuffix(s, <<"G", "B">>)
                [] HasSuffix(s, <<"M", "B">>) -> TrimSuffix(s, <<"M", "B">>)
                [] HasSuffix(s, <<"K", "B">>) -> TrimSuffix(s, <<"K", "B">>)
                [] HasSuffix(s, <<"B">>) -> TrimSuffix(s, <<"B">>)
                [] OTHER -> s
  IN IF str = <<>> \/ str = <<"0">> THEN 0
     ELSE Sscanf(TrimSpace(rest)) * multiplier

\* ------------------------------------------------ reads on a failing medium
\* where the medium fails a read call with an IO error: nowhere, on the read
\* of a metadata entry, on the read of a blob, on the listing of the
\* metadata entries
ReadFaults == {"none", "meta_read", "blob_read", "dir_read"}

\* Filesystem.GetMeta when os.Open fails with an error that is not "not exist"
FsGetMetaOn(S, id, rd) ==
  IF rd = "meta_read" THEN [err |-> "failed to open metadata"] ELSE FsGetMeta(S, id)

\* S3Storage.GetMeta when GetObject fails: whatever the error, "item not found"
S3GetMetaOn(S, id, rd) ==
  IF rd = "meta_read" THEN [err |-> "item not found"] ELSE S3GetMeta(S, id)

GetMetaOn(be, S, id, rd) ==
  IF be = "filesystem" THEN FsGetMetaOn(S, id, rd) ELSE S3GetMetaOn(S, id, rd)

\* Filesystem.Get / S3Storage.Get: the metadata first, then the blob
GetOn(be, S, id, rd) ==
  LET m == GetMetaOn(be, S, id, rd)
  IN IF m.err # "nil" THEN [err |-> m.err]
     ELSE IF rd = "blob_read"
       THEN [err |-> IF be = "filesystem" THEN "failed to open file" ELSE "failed to get file"]
     ELSE Get(be, S, id)

\* Filesystem.List / S3Storage.List: a failed listing is returned, an entry
\* whose GetMeta fails is passed over
ListOn(be, S, ownerToken, rd) ==
  IF rd = "dir_read"
    THEN [err |-> IF be = "filesystem" THEN "failed to read metadata directory"
                  ELSE "failed to list objects"]
  ELSE IF rd = "meta_read" THEN [err |-> "nil", items |-> <<>>]
  ELSE List(be, S, ownerToken)

\* WebDAVHandler.openFile: every error of Get becomes os.ErrNotExist
OpenFileReadOn(be, S, token, name, rd) ==
  LET f == FindByFilename(be, S, token, name)
  IN IF f.err # "nil" THEN [err |-> f.err]
     ELSE LET g == GetOn(be, S, f.item.id, rd)
          IN IF g.err # "nil" THEN [err |-> "ErrNotExist"]
             ELSE [err |-> "nil", info |-> ItemInfo(f.item), data |-> g.data]

\* the read fault as the history records it
ReadFault(rd) == [at |-> rd, rmFiles |-> TRUE, rmMeta |-> TRUE]

\* a read call answers r; taken says whether the call got to the read that
\* the medium fails
ReadCall(op, r, rd, taken) ==
  /\ last' = [op |-> op, status |-> r.err]
  /\ fault' = IF taken THEN ReadFault(rd) ELSE NoFault
  /\ UNCHANGED <<authTokens, calls, tui, backend, maxFileSize, store, usedIds, now, handles, puts>>

\* a call Storage.GetMeta(ctx, id)
GetMetaCall(id, rd) ==
  ReadCall("GetMeta", GetMetaOn(backend, store, id, rd), rd, rd = "meta_read")

\* a call Storage.Get(ctx, id)
GetCall(id, rd) ==
  ReadCall("Get", GetOn(backend, store, id, rd), rd,
           \/ rd = "meta_read"
           \/ rd = "blob_read" /\ GetMeta(backend, store, id).err = "nil")

\* a call Storage.List(ctx, ownerToken)
ListCall(ownerToken, rd) ==
  ReadCall("List", ListOn(backend, store, ownerToken, rd), rd,
           \/ rd = "dir_read"
           \/ rd = "meta_read" /\ DOMAIN store.meta # {})

\* WebDAVHandler.OpenFile for read on a path that is not the root
DavOpenRead(token, path, rd) ==
  /\ DavIsValidToken(token)
  /\ ~IsRoot(CleanPath(path))
  /\ ReadCall("openread", OpenFileReadOn(backend, store, token, CleanPath(path), rd), rd,
              /\ rd \in {"meta_read", "blob_read"}
              /\ FindByFilename(backend, store, token, CleanPath(path)).err = "nil")

\* ---------------------------------------------------------- specification
\* the requests of one kind whose inputs are drawn from the given sets
UploadStep(tokens, filenames, headers, renders, bodies, faults) ==
  \E token \in tokens, filename \in filenames, header \in headers, render \in renders,
     body \in bodies, flt \in faults :
    HandleUpload(token, filename, header, render, body, flt)

DeleteStep(tokens, ids, faults) ==
  \E token \in tokens, id \in ids, flt \in faults : HandleDelete(token, id, flt)

OpenWriteStep(conns, tokens, paths) ==
  \E c \in conns, token \in tokens, path \in paths : DavOpenWrite(c, token, path)

\* a Write; the model lets the buffer grow to at most room bytes
WriteStep(conns, chunks, room) ==
  \E c \in conns, p \in chunks :
    Len(WriteFile(handles[c], p).buffer) <= room /\ DavWrite(c, p)

CloseStep(conns, faults) == \E c \in conns, flt \in faults : DavClose(c, flt)

RemoveAllStep(tokens, paths, faults) ==
  \E token \in tokens, path \in paths, flt \in faults : DavRemoveAll(token, path, flt)

\* Put calls, each under an id not used before
PutStep(datas, faults) ==
  \E id \in FreshIds, data \in datas, flt \in faults :
    \E item \in CallerItems(id) : PutCall(id, data, item, flt)

DeleteCallStep(ids, faults) == \E id \in ids, flt \in faults : DeleteCall(id, flt)

OpenDirStep(conns, tokens, paths) ==
  \E c \in conns, token \in tokens, path \in paths : DavOpenDir(c, token, path)

ReaddirStep(conns, counts) == \E c \in conns, count \in counts : DavReaddir(c, count)

MkdirStep(tokens, paths) == \E token \in tokens, path \in paths : DavMkdir(token, path)

RenameStep(tokens, olds, news) ==
  \E token \in tokens, oldName \in olds, newName \in news :
    DavRename(token, oldName, newName)

OpenFileStep(conns, tokens, paths) ==
  \E c \in conns, token \in tokens, path \in paths : DavOpenFile(c, token, path)

FileReadStep(conns, lens) == \E c \in conns, n \in lens : DavRead(c, n)

\* the model follows the reader's index up to `room`
SeekStep(conns, offsets, whences, room) ==
  \E c \in conns, offset \in offsets, whence \in whences :
    /\ handles[c].kind = "read"
    /\ ReaderSeek(handles[c].data, handles[c].off, offset, whence).off <= room
    /\ DavSeek(c, offset, whence)

FileWriteStep(conns, chunks) == \E c \in conns, p \in chunks : DavFileWrite(c, p)

ServeStep(headers, methods, paths) ==
  \E h \in headers, method \in methods, path \in paths : ServeHTTP(h, method, path)

ReadStep(ids, tokens, paths, rds) ==
  \E rd \in rds :
    \/ \E id \in ids : GetMetaCall(id, rd) \/ GetCall(id, rd)
    \/ \E token \in tokens : ListCall(token, rd)
    \/ \E token \in tokens, path \in paths : DavOpenRead(token, path, rd)

\* The HTTP API and WebDAV removal on a medium that does not fail.
Next ==
  \/ Tick
  \/ UploadStep(Tokens \cup {<<>>}, FileNames, {<<>>}, {<<>>}, Contents, {NoFault})
  \/ DeleteStep(ReqTokens, Ids \cup {0}, {NoFault})
  \/ RemoveAllStep(Tokens, RemovePaths, {NoFault})

Spec == Init /\ [][Next]_vars

\* The same requests on a medium on which a step of Put, and the removals Put
\* makes to clean up, can fail.
NextFault ==
  \/ UploadStep(ReqTokens, {<<>>, <<"a">>}, {<<>>}, {<<>>}, Contents, PutFaults(backend))
  \/ DeleteStep(Tokens, Ids, {NoFault})
  \/ RemoveAllStep(Tokens, {<<Slash>>, <<Slash, "a">>}, {NoFault})

SpecFault == Init /\ [][NextFault]_vars

\* The WebDAV adapter on one connection, on a medium that does not fail.
NextDav ==
  \/ OpenWriteStep({"c1"}, Tokens, {<<Slash>>, <<Slash, "a">>, <<Slash, InvalidByte>>})
  \/ WriteStep({"c1"}, Contents, MaxLen)
  \/ CloseStep({"c1"}, {NoFault})
  \/ RemoveAllStep(Tokens, {<<Slash>>, <<Slash, "a">>, <<Slash, ReplacementChar>>}, {NoFault})

SpecDav == Init /\ [][NextDav]_vars

\* The Storage interface called directly, on a medium that does not fail.
NextStorage ==
  \/ PutStep(Contents, {NoFault})
  \/ DeleteCallStep(Ids, {NoFault})

SpecStorage == Init /\ [][NextStorage]_vars

\* The Storage interface called directly, on a medium where a step of Put and
\* each removal may fail.
NextStorageFault ==
  \/ PutStep({<<>>, <<97>>}, PutFaults(backend))
  \/ DeleteCallStep(Ids, DeleteFaults)

SpecStorageFault == Init /\ [][NextStorageFault]_vars

\* The root directory read in pages, between uploads and deletes.
Counts == {-1, 0, 1, 2, 3}

NextReaddir ==
  \/ Tick
  \/ UploadStep(Tokens, {<<>>, <<"a">>}, {<<>>}, {<<>>}, {<<>>, <<97>>}, {NoFault})
  \/ OpenDirStep({"c1"}, Tokens, {<<>>, <<Slash>>})
  \/ ReaddirStep({"c1"}, Counts)
  \/ DeleteStep(Tokens, Ids, {NoFault})

SpecReaddir == Init /\ [][NextReaddir]_vars

\* The requests the adapter refuses, between uploads and deletes.
RefusedPaths == {<<Slash>>, <<Slash, "a">>, <<Slash, "b">>, <<Slash>> \o IdString(1)}

NextRefused ==
  \/ Tick
  \/ UploadStep(Tokens, {<<>>, <<"a">>}, {<<>>}, {<<>>}, Contents, {NoFault})
  \/ DeleteStep(Tokens, Ids, {NoFault})
  \/ MkdirStep(Tokens, RefusedPaths)
  \/ RenameStep(Tokens, RefusedPaths, RefusedPaths)

SpecRefused == Init /\ [][NextRefused]_vars

\* The Storage interface and the adapter's read, on a medium whose writes,
\* removals and reads may fail.
NextReadFault ==
  \/ PutStep({<<97>>}, PutFaults(backend))
  \/ DeleteCallStep(Ids, DeleteFaults)
  \/ ReadStep(Ids, Tokens, {<<Slash, "a">>}, ReadFaults \ {"none"})

SpecReadFault == Init /\ [][NextReadFault]_vars

\* Uploads and write handles under tokens a request can present, the empty
\* one included, for every token list of AuthConfigs.
NextConfig ==
  \/ UploadStep({<<"A">>, <<>>}, {<<"a">>}, {<<>>}, {<<>>}, {<<97>>}, {NoFault})
  \/ OpenWriteStep({"c1"}, {<<"A">>, <<>>}, {<<Slash, "a">>})
  \/ WriteStep({"c1"}, {<<97>>}, MaxBuf)
  \/ CloseStep({"c1"}, {NoFault})
  \/ DeleteStep({<<"A">>, <<>>}, Ids, {NoFault})

SpecConfig == InitConfig /\ [][NextConfig]_vars

\* Put and Delete calls of two goroutines interleaved access by access, each
\* Put under an id of its own, with reads between any two accesses.
NextSteps ==
  \/ \E p \in Procs, id \in FreshIds :
       \E item \in {it \in CallerItems(id) : /\ it.filename = <<"a">> /\ it.size = 0
                                             /\ it.created_at = now
                                             /\ it.owner_token \in Tokens} :
         PutStart(p, id, <<97>>, item)
  \/ \E p \in Procs : PutBlob(p) \/ PutMetaCreate(p) \/ PutMeta(p) \/ DeleteEnd(p)
  \/ \E p \in Procs, id \in Ids : DeleteStart(p, id)
  \/ ReadStep(Ids, {<<"A">>}, {<<Slash, "a">>}, {"none"})

SpecSteps == Init /\ [][NextSteps]_vars

\* Two write handles, of one owner or of two, under one name or two, opened,
\* written and closed in any interleaving.
NextTwoHandles ==
  \/ OpenWriteStep({"c1"}, {<<"A">>}, {<<Slash, "a">>})
  \/ OpenWriteStep({"c2"}, Tokens, {<<Slash, "a">>, <<Slash, "b">>})
  \/ WriteStep({"c1"}, {<<0>>, <<97>>}, MaxBuf)
  \/ WriteStep({"c2"}, {<<97>>}, MaxBuf)
  \/ CloseStep(Conns, {NoFault})

SpecTwoHandles == Init /\ [][NextTwoHandles]_vars

\* One read handle on the name "a", read and sought, while items of that
\* name are uploaded and deleted.
NextRead ==
  \/ UploadStep({<<"A">>}, {<<"a">>}, {<<>>}, {<<>>}, {<<97>>, TwoBytes}, {NoFault})
  \/ DeleteStep({<<"A">>}, Ids, {NoFault})
  \/ OpenFileStep({"c1"}, {<<"A">>}, {<<Slash, "a">>})
  \/ FileReadStep({"c1"}, 0..2)
  \/ SeekStep({"c1"}, -1..1, 0..3, MaxBuf + 1)
  \/ FileWriteStep({"c1"}, {<<97>>})

SpecRead == Init /\ [][NextRead]_vars

\* Every operation of the storage interface and of the adapter on one
\* connection, for one owner and one name, on a medium that does not fail.
NextFrame ==
  \/ UploadStep({<<"A">>}, {<<"a">>}, {<<>>}, {<<>>}, {<<97>>}, {NoFault})
  \/ DeleteStep({<<"A">>}, Ids, {NoFault})
  \/ RemoveAllStep({<<"A">>}, {<<Slash, "a">>}, {NoFault})
  \/ ReadStep(Ids, {<<"A">>}, {<<Slash, "a">>}, {"none"})
  \/ OpenWriteStep({"c1"}, {<<"A">>}, {<<Slash, "a">>})
  \/ WriteStep({"c1"}, {<<97>>}, MaxLen)
  \/ CloseStep({"c1"}, {NoFault})
  \/ OpenDirStep({"c1"}, {<<"A">>}, {<<Slash>>})
  \/ ReaddirStep({"c1"}, {0, 1})
  \/ OpenFileStep({"c1"}, {<<"A">>}, {<<Slash, "a">>})
  \/ FileReadStep({"c1"}, {1})
  \/ SeekStep({"c1"}, {0}, {0, 2}, MaxBuf)

SpecFrame == Init /\ [][NextFrame]_vars

\* paths a PUT may name: one component, one with a trailing slash, two
\* components
WritePaths ==
  {<<Slash, "a">>, <<Slash, "a", Slash>>, <<Slash, "a", Slash, "b">>}

\* Write handles opened on these paths, written and closed.
NextNested ==
  \/ OpenWriteStep(Conns, {<<"A">>}, WritePaths)
  \/ WriteStep(Conns, {<<97>>}, MaxLen)
  \/ CloseStep(Conns, {NoFault})

SpecNested == Init /\ [][NextNested]_vars

\* user-ids and passwords a client may send
Usernames == {<<>>, <<"u">>, <<"A">>}
Passwords == Tokens \cup {<<>>, <<"Z">>, <<"A", Colon, "B">>}

\* the Authorization headers of the model: none, another scheme, credentials
\* without a colon, and every user-id with every password
AuthHeaders ==
  {NoHeader, [present |-> TRUE, scheme |-> "Bearer", cred |-> <<"A">>],
   [present |-> TRUE, scheme |-> "Basic", cred |-> <<"A">>]}
    \cup {BasicHeader(u, pw) : u \in Usernames, pw \in Passwords}

\* WebDAV requests under every header, next to uploads.
NextAuth ==
  \/ Tick
  \/ UploadStep(Tokens, {<<"a">>}, {<<>>}, {<<>>}, {<<97>>}, {NoFault})
  \/ ServeStep(AuthHeaders, {"DELETE", "PROPFIND"}, {<<Slash>>, <<Slash, "a">>})

SpecAuth == Init /\ [][NextAuth]_vars

\* the values of Item.RenderMode the storage package documents
RenderModes == {<<"auto">>, <<"raw">>, <<"render">>}

\* values of the `render` query parameter: absent, the three modes, another
RenderParams == {<<>>, <<"auto">>, <<"raw">>, <<"render">>, <<"zz">>}

\* Uploads with every value of the render parameter, next to write handles.
NextRender ==
  \/ UploadStep({<<"A">>}, {<<"a">>}, {<<>>}, RenderParams, {<<97>>}, {NoFault})
  \/ OpenWriteStep({"c1"}, {<<"A">>}, {<<Slash, "a">>})
  \/ WriteStep({"c1"}, {<<97>>}, MaxBuf)
  \/ CloseStep({"c1"}, {NoFault})
  \/ DeleteStep({<<"A">>}, Ids, {NoFault})

SpecRender == Init /\ [][NextRender]_vars

\* values of limits.max_file_size in the configuration file
SizeStrings ==
  {<<>>, <<"0">>, <<"1">>, <<"2">>, <<"1", "B">>, <<"1", "K", "B">>, <<"2", "K", "B">>,
   <<"1", "M", "B">>, <<"1", "G", "B">>, <<"1", "k", "b">>, <<"1", " ", "K", "B">>,
   <<"1", "2">>, <<"0", "0">>, <<"0", "K", "B">>, <<"K", "B">>, <<"x">>, <<"-", "1">>}

\* the state after New(cfg, store) for a configuration whose
\* limits.max_file_size is one of SizeStrings
InitLimit ==
  /\ authTokens = Tokens
  /\ backend \in Backends
  /\ \E str \in SizeStrings :
       /\ maxFileSize = parseSize(str)
       /\ last = [op |-> "New", status |-> "nil", size |-> str]
  /\ store = EmptyStore
  /\ usedIds = {}
  /\ now = 0
  /\ handles = [c \in Conns |-> NoHandle]
  /\ calls = [p \in Procs |-> Idle]
  /\ tui = TuiStart
  /\ puts = <<>>
  /\ fault = NoFault

\* Uploads and write handles under the limit the configuration gave.
NextLimit ==
  \/ UploadStep({<<"A">>}, {<<"a">>}, {<<>>}, {<<>>}, {<<97>>, TwoBytes}, {NoFault})
  \/ OpenWriteStep({"c1"}, {<<"A">>}, {<<Slash, "a">>})
  \/ WriteStep({"c1"}, {<<97>>, TwoBytes}, MaxBuf)
  \/ CloseStep({"c1"}, {NoFault})
  \/ DeleteStep({<<"A">>}, Ids, {NoFault})

SpecLimit == InitLimit /\ [][NextLimit]_vars

\* HTTP uploads with bodies up to and beyond the limit, and deletes.
NextTooLarge ==
  \/ Tick
  \/ UploadStep(Tokens, {<<>>, <<"a">>}, {<<>>}, {<<>>}, {<<97>>, TwoBytes}, {NoFault})
  \/ DeleteStep(Tokens, Ids, {NoFault})

SpecTooLarge == Init /\ [][NextTooLarge]_vars

\* One owner's write handle fed in chunks of up to MaxBuf bytes, next to
\* uploads and deletes of the same name, on a medium that does not fail.
NextWrite ==
  \/ OpenWriteStep({"c1"}, {<<"A">>}, {<<Slash, "a">>, <<Slash, InvalidByte>>})
  \/ WriteStep({"c1"}, Contents \cup {TwoBytes}, MaxBuf)
  \/ CloseStep({"c1"}, {NoFault})
  \/ UploadStep({<<"A">>}, {<<"a">>}, {<<>>}, {<<>>}, {<<>>, <<97>>}, {NoFault})
  \/ DeleteStep(Tokens, Ids, {NoFault})

SpecWrite == Init /\ [][NextWrite]_vars

\* ================================================================== claims
\* what the history says: the ids whose Put returned nil and that no Delete
\* has been called on since, and the owner each was stored for
StoredIds == DOMAIN puts
OwnerOf(id) == puts[id].item.owner_token
OwnedBy(token) == {id \in StoredIds : OwnerOf(id) = token}

\* the ids of a sequence of items
IdsOf(items) == {items[i].id : i \in DOMAIN items}

\* C1: after Put(id, c, m) returned without error, with no later Put or Delete
\* on id, Get(id) returns the bytes c and the item m with size = len(c).
C1_PutGetRoundTrip ==
  \A id \in StoredIds :
    LET g == Get(backend, store, id)
    IN /\ g.err = "nil"
       /\ g.data = puts[id].data
       /\ g.item = [puts[id].item EXCEPT !.size = Len(puts[id].data)]

\* C2: Delete(id) returns no error whatever is present under id (blob and
\* metadata, one of them, neither); afterwards Get(id) and GetMeta(id) fail
\* with "item not found", and a second Delete(id) returns no error and leaves
\* the store as it is.
C2_DeleteThenNotFound ==
  \A id \in Ids :
    LET d == Delete(backend, store, id, NoFault)
        again == Delete(backend, d.store, id, NoFault)
    IN /\ d.err = "nil"
       /\ Get(backend, d.store, id).err = "item not found"
       /\ GetMeta(backend, d.store, id).err = "item not found"
       /\ again.err = "nil"
       /\ again.store = d.store

\* C2 witness: a delete request has been answered 204 while another id has a
\* blob without metadata.
C2_Witness ==
  /\ last = [op |-> "delete", status |-> "204"]
  /\ \E id \in Ids : id \in DOMAIN store.files /\ id \notin DOMAIN store.meta

\* C3: List(t) holds exactly one entry for each id stored for owner t, and
\* none for an id of another owner or a deleted id.
C3_ListExactlyOwned ==
  \A t \in ReqTokens :
    LET l == List(backend, store, t)
    IN /\ l.err = "nil"
       /\ IdsOf(l.items) = OwnedBy(t)
       /\ Len(l.items) = Cardinality(OwnedBy(t))
       /\ \A i \in DOMAIN l.items : l.items[i].owner_token = t

\* C3 witness: the last request deleted an item and an item of an owner is
\* still stored, which List returns for that owner and not for the other one.
C3_Witness ==
  /\ last = [op |-> "delete", status |-> "204"]
  /\ Cardinality(usedIds) > Cardinality(StoredIds)
  /\ \E a \in Tokens, b \in Tokens :
       /\ a # b
       /\ Len(List(backend, store, a).items) = 1
       /\ List(backend, store, b).items = <<>>

\* C4: the items List(t) returns are newest first: no entry is older than
\* the entry after it.
C4_ListNewestFirst ==
  \A t \in Tokens :
    LET items == List(backend, store, t).items
    IN \A i \in DOMAIN items :
         i < Len(items) => items[i].created_at >= items[i + 1].created_at

\* C5: with a cap configured, a write handle that refused a Write never calls
\* storage.Put, not on a later Close either: nothing is committed for it.
C5_RejectedNeverCommits ==
  \A c \in Conns :
    (handles[c].kind = "write" /\ handles[c].maxFileSize > 0 /\ handles[c].rejected)
      => /\ handles[c].putCalls = 0
         /\ handles[c].id \notin DOMAIN store.files
         /\ handles[c].id \notin DOMAIN store.meta

\* the id the handler of this step generated, if it generated one
NewIds == usedIds' \ usedIds

\* this step ran a Put whose blob write succeeded and whose metadata write
\* (creating the metadata entry, or writing the document) failed
MetaWriteFailed ==
  /\ last'.op \in {"upload", "close"}
  /\ NewIds # {}
  /\ fault'.at \in {"meta_create", "meta_store"}

\* what C6 says of id once that Put has returned
RolledBack(be, S, id) ==
  /\ id \notin DOMAIN S.files
  /\ id \notin DOMAIN S.meta
  /\ Get(be, S, id).err = "item not found"
  /\ \A t \in ReqTokens : id \notin IdsOf(List(be, S, t).items)

\* C6 as claimed: when the blob write succeeds and the metadata write fails,
\* Put returns the error and afterwards neither blob nor metadata exists for
\* the new id, Get(id) fails with "item not found" and List omits id.
C6_MetaFailureLeavesNothing ==
  [][MetaWriteFailed =>
       /\ last'.status \in {"500", "failed to create metadata file",
                            "failed to write metadata", "failed to upload metadata"}
       /\ \A id \in NewIds : RolledBack(backend', store', id)]_vars

\* the removals Put made to clean up in this step were carried out
CleanupDone ==
  /\ fault'.rmFiles
  /\ (backend = "filesystem" /\ fault'.at = "meta_store") => fault'.rmMeta

\* C6 amended: Put returns the metadata error, Get(id) fails and List omits
\* id in every case; neither blob nor metadata exists and Get fails with "item
\* not found" when the removals Put made were carried out; a removal that
\* fails is ignored and leaves what it should have removed.
C6_MetaFailureRollsBackBestEffort ==
  [][MetaWriteFailed =>
       /\ last'.status \in {"500", "failed to create metadata file",
                            "failed to write metadata", "failed to upload metadata"}
       /\ puts' = puts
       /\ \A id \in NewIds :
            /\ Get(backend', store', id).err # "nil"
            /\ \A t \in ReqTokens : id \notin IdsOf(List(backend', store', t).items)
            /\ CleanupDone => RolledBack(backend', store', id)
            /\ ~fault'.rmFiles => id \in DOMAIN store'.files]_vars

\* C6 witness: an upload was answered 500 after the metadata write failed and
\* the clean-up was carried out, while an earlier item is still stored.
C6_Witness ==
  /\ last = [op |-> "upload", status |-> "500"]
  /\ fault.at \in {"meta_create", "meta_store"}
  /\ fault.rmFiles /\ fault.rmMeta
  /\ StoredIds # {}
  /\ Cardinality(usedIds) > Cardinality(DOMAIN store.files)

\* a blob and its metadata are in store S2 as they are in store S1
Intact(S1, S2, id) ==
  /\ id \in DOMAIN S2.files /\ S2.files[id] = S1.files[id]
  /\ id \in DOMAIN S2.meta /\ S2.meta[id] = S1.meta[id]

\* C7: whatever delete request or RemoveAll call arrives in a state reached by
\* uploads, deletes and RemoveAlls, it leaves every item intact whose owner is
\* not the token of the request; an HTTP delete of an existing id by another
\* valid token is answered 403 and changes nothing.
C7_OnlyOwnerRemoves ==
  \A id \in StoredIds : \A t \in ReqTokens \ {OwnerOf(id)} :
    /\ Intact(store, store, id)
    /\ \A rid \in Ids \cup {0} :
         Intact(store, DeleteRequest(backend, store, t, rid, NoFault).store, id)
    /\ \A path \in DavPaths :
         Intact(store, RemoveAll(backend, store, t, path, NoFault).store, id)
    /\ t \in Tokens =>
         DeleteRequest(backend, store, t, id, NoFault)
           = [status |-> "403", store |-> store, called |-> FALSE]

\* C7 witness: a delete request has just been answered 403 and the two stored
\* items belong to different owners.
C7_Witness ==
  /\ last = [op |-> "delete", status |-> "403"]
  /\ \E a \in StoredIds, b \in StoredIds : OwnerOf(a) # OwnerOf(b)

\* store S without the items of owners other than token
OnlyItemsOf(S, token) ==
  LET keep == {id \in DOMAIN S.meta :
                 S.meta[id].parses /\ DecodeItem(S.meta[id]).owner_token = token}
  IN [files |-> [id \in DOMAIN S.files \cap keep |-> S.files[id]],
      meta |-> [id \in keep |-> S.meta[id]]]

\* C8: under token A, Stat, OpenFile for read, the root listing and RemoveAll
\* give the same result on the store and on the store without the items of
\* other owners, and what they return is a stored item of A.
C8_NoCrossOwnerVisibility ==
  \A A \in Tokens :
    LET R == OnlyItemsOf(store, A)
    IN /\ OpenRootDir(backend, store, A, now) = OpenRootDir(backend, R, A, now)
       /\ \A path \in DavPaths :
            LET name == CleanPath(path)
                f == FindByFilename(backend, store, A, name)
                o == OpenFileRead(backend, store, A, name)
                r == RemoveAll(backend, store, A, path, NoFault)
            IN /\ Stat(backend, store, A, path, now) = Stat(backend, R, A, path, now)
               /\ o = OpenFileRead(backend, R, A, name)
               /\ r.err = RemoveAll(backend, R, A, path, NoFault).err
               /\ r.id = RemoveAll(backend, R, A, path, NoFault).id
               /\ OnlyItemsOf(r.store, A) = RemoveAll(backend, R, A, path, NoFault).store
               /\ f.err = "nil" =>
                    /\ f.item.id \in OwnedBy(A)
                    /\ o.err = "nil" /\ o.data = puts[f.item.id].data
                    /\ o.info.size = Len(puts[f.item.id].data)

\* C8 witness: two owners each store an item under the same name with
\* different bytes.
C8_Witness ==
  \E a \in StoredIds, b \in StoredIds :
    /\ OwnerOf(a) # OwnerOf(b)
    /\ puts[a].item.filename = <<"a">> /\ puts[b].item.filename = <<"a">>
    /\ puts[a].data # puts[b].data

\* the stored items of owner t that are shown under name
Named(t, name) ==
  {id \in OwnedBy(t) : DisplayName(Get(backend, store, id).item) = name}

\* C9: when several items of an owner are shown under one name, Stat and
\* OpenFile for read of that name resolve to one that no other is newer than.
C9_NewestWinsOnDuplicateName ==
  \A t \in Tokens : \A path \in DavPaths :
    LET name == CleanPath(path)
        f == FindByFilename(backend, store, t, name)
        st == Stat(backend, store, t, path, now)
        o == OpenFileRead(backend, store, t, name)
    IN Cardinality(Named(t, name)) >= 2 =>
         /\ f.err = "nil" /\ st.err = "nil" /\ o.err = "nil"
         /\ \A id \in Named(t, name) :
              /\ f.item.created_at >= puts[id].item.created_at
              /\ st.info.modTime >= puts[id].item.created_at
              /\ o.info.modTime >= puts[id].item.created_at

\* the names the items List returns for owner t are shown under
ListedNames(t) ==
  LET items == List(backend, store, t).items
  IN {DisplayName(items[i]) : i \in DOMAIN items}

\* C10: Stat of "" and of "/" returns a directory and no error for every
\* owner in every state; Stat of another path whose name is the display name
\* of none of the owner's listed items fails with ErrNotExist.
C10_StatRootAndMissing ==
  \A t \in ReqTokens :
    /\ \A root \in {<<>>, <<Slash>>} :
         LET st == Stat(backend, store, t, root, now)
         IN st.err = "nil" /\ st.info.isDir
    /\ \A path \in DavPaths :
         (~IsRoot(CleanPath(path)) /\ CleanPath(path) \notin ListedNames(t))
           => Stat(backend, store, t, path, now) = [err |-> "ErrNotExist"]

\* C10 witness: an owner has an item listed under the name "a", and the paths
\* of an id and of the replacement character name nothing of that owner.
C10_Witness ==
  \E t \in Tokens :
    /\ <<"a">> \in ListedNames(t)
    /\ ReplacementChar \notin {n[1] : n \in ListedNames(t)}
    /\ Cardinality(ListedNames(t)) = 1
    /\ \E u \in Tokens : u # t /\ ListedNames(u) # {}

\* C11: the first Close of a write handle calls Put once; a Close of a closed
\* handle returns nil, calls Put no more and changes nothing in the store, so
\* a handle never has more than one Put to its name.
C11_CloseIdempotent ==
  [][\A c \in Conns :
       LET f == handles[c]
           g == handles'[c]
       IN /\ g.putCalls <= 1
          /\ (last'.op = "close" /\ f.kind = "write" /\ ~f.closed)
               => (g.closed /\ g.putCalls = 1 /\ f.putCalls = 0)
          /\ (last'.op = "close" /\ f.kind = "write" /\ f.closed)
               => /\ last'.status = "nil"
                  /\ g = f
                  /\ store' = store /\ puts' = puts /\ usedIds' = usedIds]_vars

\* C11 witness: Close was called on a handle whose commit had already been
\* deleted again, so on a handle closed before.
C11_Witness ==
  /\ last = [op |-> "close", status |-> "nil"]
  /\ \E c \in Conns :
       /\ handles[c].kind = "write" /\ handles[c].closed /\ handles[c].putCalls = 1
       /\ handles[c].id \in usedIds \ DOMAIN store.meta

\* the write handles whose one Put has been made and whose item is still stored
Committed == {c \in Conns : handles[c].kind = "write" /\ handles[c].putCalls = 1
                             /\ handles[c].id \in StoredIds}

\* C12: the item the first Close of a write handle committed has as blob the
\* bytes of the accepted Writes in call order, that length as size, the name
\* the handle was opened with as filename, the opening token as owner,
\* render_mode "auto" and the id generated for it.
C12_CloseCommitsBufferedItem ==
  \A c \in Committed :
    LET f == handles[c]
        g == Get(backend, store, f.id)
    IN /\ g.err = "nil"
       /\ g.data = f.written
       /\ g.item.size = Len(f.written)
       /\ g.item.filename = f.name
       /\ g.item.owner_token = f.token
       /\ g.item.render_mode = <<"auto">>
       /\ g.item.id = f.id
       /\ f.id \in usedIds

\* the items of a sequence that carry id
WithId(items, id) == {i \in DOMAIN items : items[i].id = id}

\* C13: a Close that follows the open of a write handle at once, with no
\* Write in between, commits an item: the owner's List then has one new item
\* with the handle's name and size 0, whose blob is empty.
C13_CloseWithoutWriteCommitsEmpty ==
  [][(last.op = "open" /\ last'.op = "close") =>
       \A c \in Conns :
         (handles[c].kind = "write" /\ ~handles[c].closed) =>
           LET f == handles[c]
               id == handles'[c].id
               items == List(backend', store', f.token).items
           IN /\ id \in usedIds' \ usedIds
              /\ Cardinality(WithId(items, id)) = 1
              /\ \A i \in WithId(items, id) :
                   items[i].filename = f.name /\ items[i].size = 0
              /\ Get(backend', store', id).err = "nil"
              /\ Get(backend', store', id).data = <<>>]_vars

\* the chunks a Write is tried with
Chunks == Contents \cup {TwoBytes}

\* C14: a write handle with a cap never buffers more than the cap.  A Write
\* is rejected only when a cap is set and the bytes would not fit; it then
\* reports 0 bytes and leaves the buffer as it is.  On every write handle,
\* one that has rejected a Write included, a Write that fits (any Write when
\* the cap is 0) is accepted and appended.
C14_BufferWithinCap ==
  \A c \in Conns :
    LET f == handles[c]
    IN f.kind = "write" =>
         /\ f.maxFileSize > 0 => Len(f.buffer) <= f.maxFileSize
         /\ \A p \in Chunks :
              LET w == WriteFile(f, p)
                  fits == f.maxFileSize = 0 \/ Len(f.buffer) + Len(p) <= f.maxFileSize
              IN /\ w.err \in {"nil", "file too large"}
                 /\ w.err # "nil" => (~fits /\ w.n = 0 /\ w.buffer = f.buffer)
                 /\ fits => (w.err = "nil" /\ w.n = Len(p) /\ w.buffer = f.buffer \o p)

\* C14 witness: on a handle with a cap that rejected a Write, the last Write
\* was accepted and put a byte in the buffer.
C14_Witness ==
  /\ last = [op |-> "write", status |-> "nil"]
  /\ \E c \in Conns :
       /\ handles[c].kind = "write" /\ ~handles[c].closed
       /\ handles[c].maxFileSize > 0 /\ handles[c].rejected
       /\ handles[c].n = 1 /\ Len(handles[c].buffer) = 1

\* the names the model's write handles and uploads store items under
StoredNames == {<<"a">>, <<ReplacementChar>>}

\* C15: the open of a write handle and every Write leave the blobs and the
\* metadata of the store as they are; the handle still open after such a
\* step has had no id generated and no Put made, and whatever Get, List and
\* OpenFile for read return to any token then was committed by a completed
\* Put, bytes included.
C15_PartialWritesInvisible ==
  [][last'.op \in {"open", "write"} =>
       /\ store' = store
       /\ puts' = puts
       /\ \A c \in Conns :
            (handles'[c].kind = "write" /\ ~handles'[c].closed) =>
               (handles'[c].putCalls = 0 /\ handles'[c].id = 0)
       /\ \A id \in Ids :
            LET g == Get(backend', store', id)
            IN g.err = "nil" => (id \in StoredIds' /\ g.data = puts'[id].data)
       /\ \A t \in Tokens :
            /\ IdsOf(List(backend', store', t).items) \subseteq StoredIds'
            /\ \A name \in StoredNames :
                 LET f == FindByFilename(backend', store', t, name)
                     o == OpenFileRead(backend', store', t, name)
                 IN f.err = "nil" =>
                      /\ f.item.id \in StoredIds'
                      /\ o.err = "nil" /\ o.data = puts'[f.item.id].data]_vars

\* C15 witness: a byte has just been written to an open handle while an item
\* of the same owner is stored.
C15_Witness ==
  /\ last = [op |-> "write", status |-> "nil"]
  /\ \E c \in Conns :
       /\ handles[c].kind = "write" /\ ~handles[c].closed
       /\ Len(handles[c].buffer) = 2
       /\ OwnedBy(handles[c].token) # {}

\* the ids that have a blob or metadata
Present(S) == DOMAIN S.files \cup DOMAIN S.meta

\* C16: a step leaves every item of the store as it is, id, blob and metadata,
\* unless it is a delete that removes that one item; an upload or a commit of
\* a write handle that stores something adds one item under an id not handed
\* out before, and Get returns for every earlier id what it returned before.
C16_ItemsImmutable ==
  [][/\ \A id \in Present(store) :
          \/ Intact(store, store', id)
          \/ /\ last'.op = "delete"
             /\ Present(store) \ Present(store') = {id}
     /\ (last'.op \in {"upload", "close"} /\ store' # store) =>
          /\ Cardinality(Present(store') \ Present(store)) = 1
          /\ Present(store') \ Present(store) = usedIds' \ usedIds
          /\ \A id \in Present(store) :
               Get(backend', store', id) = Get(backend, store, id)]_vars

\* C16 witness: a write handle has just committed an item named "a" while an
\* uploaded item named "a" of the same owner is stored.
C16_Witness ==
  /\ last = [op |-> "close", status |-> "nil"]
  /\ \E c \in Committed : \E id \in StoredIds \ {handles[c].id} :
       /\ puts[id].item.filename = <<"a">>
       /\ puts[handles[c].id].item.filename = <<"a">>
       /\ OwnerOf(id) = handles[c].token
       /\ puts[id].data # puts[handles[c].id].data

\* C17: after any sequence of Put calls under distinct ids and Delete calls
\* that ran to their return, every id with metadata has a blob, and the size
\* in its metadata, as GetMeta, Get and List return it, is the length of that
\* blob, whatever size the caller wrote in the item.
C17_SizeIsBlobLength ==
  /\ \A id \in DOMAIN store.meta :
       /\ id \in DOMAIN store.files
       /\ GetMeta(backend, store, id).err = "nil"
       /\ GetMeta(backend, store, id).item.size = Len(store.files[id])
       /\ Get(backend, store, id).item.size = Len(Get(backend, store, id).data)
  /\ \A t \in Tokens :
       LET items == List(backend, store, t).items
       IN \A i \in DOMAIN items : items[i].size = Len(store.files[items[i].id])

\* C17 witness: a stored item was handed to Put with size 7 and a blob of one
\* byte, another with size 0 and a blob of one byte.
C17_Witness ==
  \E a \in StoredIds, b \in StoredIds :
    /\ puts[a].item.size = 7 /\ Len(puts[a].data) = 1
    /\ puts[b].item.size = 0 /\ Len(puts[b].data) = 1

C19_BackendsAgree ==
  /\ \A id \in Ids :
       /\ FsGet(store, id) = S3Get(store, id)
       /\ FsGetMeta(store, id) = S3GetMeta(store, id)
       /\ FsDelete(store, id, NoFault) = S3Delete(store, id, NoFault)
       /\ \A data \in Contents : \A item \in CallerItems(id) :
            FsPut(store, id, Stream(data), item, NoFault)
              = S3Put(store, id, Stream(data), item, NoFault)
  /\ \A t \in ReqTokens : FsList(store, t) = S3List(store, t)

\* the smaller of two numbers
Min(a, b) == IF a < b THEN a ELSE b

\* C20: on a root directory handle the entries returned so far are the first
\* pos children in their order, each once.  With children left, Readdir(k)
\* returns the next Min(k, left) of them for k > 0 and all that are left for
\* k <= 0, without error; with none left it returns nothing, with EOF for
\* k > 0 and without error for k <= 0, however often it is called.
C20_ReaddirPages ==
  \A c \in Conns :
    LET d == handles[c]
    IN d.kind = "dir" =>
         /\ d.pos \in 0..Len(d.children)
         /\ d.out = SubSeq(d.children, 1, d.pos)
         /\ \A k \in Counts :
              LET r == Readdir(d, k)
                  left == Len(d.children) - d.pos
                  take == IF k <= 0 THEN left ELSE Min(k, left)
              IN /\ r.result = SubSeq(d.children, d.pos + 1, d.pos + take)
                 /\ r.pos = d.pos + take
                 /\ r.err = IF left = 0 /\ k > 0 THEN "EOF" ELSE "nil"

\* C20 witness: a handle with two different children has handed out both, in
\* order, and its last Readdir answered EOF with no entry.
C20_Witness ==
  /\ last = [op |-> "readdir", status |-> "EOF"]
  /\ \E c \in Conns :
       /\ handles[c].kind = "dir" /\ Len(handles[c].children) = 2
       /\ handles[c].pos = 2 /\ handles[c].n = 0
       /\ handles[c].out = handles[c].children
       /\ handles[c].children[1] # handles[c].children[2]

\* C21: the handle a root open returns has as children the owner's List of
\* that moment: one per item, in List order, each not a directory, named by
\* the item's filename or by its id when it has none, with the item's size;
\* no later step changes the children of the handle.
C21_RootChildrenAreListAtOpen ==
  [][\A c \in Conns :
       /\ (last'.op = "opendir" /\ handles'[c].kind = "dir") =>
            LET d == handles'[c]
                items == List(backend, store, d.token).items
            IN /\ Len(d.children) = Len(items)
               /\ IdsOf(items) = OwnedBy(d.token)
               /\ \A i \in DOMAIN items :
                    /\ ~d.children[i].isDir
                    /\ d.children[i].size = Len(puts[items[i].id].data)
                    /\ d.children[i].name =
                         IF puts[items[i].id].item.filename = <<>>
                           THEN IdString(items[i].id)
                           ELSE puts[items[i].id].item.filename
       /\ (last'.op # "opendir" /\ handles[c].kind = "dir") =>
            (handles'[c].kind = "dir" /\ handles'[c].children = handles[c].children)]_vars

\* C21 witness: a handle opened on two items, one of them without filename,
\* still has both children after one of the items was deleted.
C21_Witness ==
  /\ last = [op |-> "delete", status |-> "204"]
  /\ \E c \in Conns :
       /\ handles[c].kind = "dir" /\ Len(handles[c].children) = 2
       /\ \E i \in 1..2, id \in Ids : handles[c].children[i].name = IdString(id)
       /\ Cardinality(OwnedBy(handles[c].token)) = 1

\* C22: RemoveAll of "" or "/" returns ErrPermission, RemoveAll of another
\* path whose name is the display name of none of the owner's items returns
\* ErrNotExist; in both cases Delete is not called and the store stays as it
\* is, every blob and every metadata record.
C22_RemoveAllRootAndMissing ==
  \A t \in Tokens : \A path \in DavPaths :
    LET r == RemoveAll(backend, store, t, path, NoFault)
        name == CleanPath(path)
    IN /\ IsRoot(name) => (r.err = "ErrPermission" /\ r.id = 0 /\ r.store = store)
       /\ (~IsRoot(name) /\ name \notin ListedNames(t))
            => (r.err = "ErrNotExist" /\ r.id = 0 /\ r.store = store)

\* C22 witness: a RemoveAll has just been refused with ErrPermission while
\* both owners have an item stored, one of them named "a".
C22_Witness ==
  /\ last = [op |-> "removeall", status |-> "ErrPermission"]
  /\ \A t \in Tokens : OwnedBy(t) # {}
  /\ \E t \in Tokens : <<"a">> \in ListedNames(t)
  /\ \E t \in Tokens : <<"a">> \notin ListedNames(t)

\* C23: Mkdir and Rename return ErrPermission for every owner, every path
\* and every store, and return the store as it is; a step that serves one of
\* them changes no blob and no metadata record.
C23_MkdirRenameRefused ==
  [][/\ \A t \in Tokens : \A p \in RefusedPaths :
          /\ Mkdir(backend, store, t, p) = [store |-> store, err |-> "ErrPermission"]
          /\ \A q \in RefusedPaths :
               Rename(backend, store, t, p, q) = [store |-> store, err |-> "ErrPermission"]
     /\ last'.op \in {"mkdir", "rename"} =>
          (last'.status = "ErrPermission" /\ store' = store /\ puts' = puts)]_vars

\* C23 witness: a Rename has just been refused while an item named "a" and
\* an item without filename are stored.
C23_Witness ==
  /\ last = [op |-> "rename", status |-> "ErrPermission"]
  /\ \E a \in StoredIds, b \in StoredIds :
       puts[a].item.filename = <<"a">> /\ puts[b].item.filename = <<>>

\* C24: when the medium fails during a Get, GetMeta, List or Put, or during
\* the Get of the adapter's open for read, the call returns an error, and
\* not the error of a missing item.
C24_IOFailuresSurface ==
  [][(last'.op \in {"Get", "GetMeta", "List", "Put", "openread"}
        /\ fault'.at # "none")
       => last'.status \notin {"nil", "item not found", "ErrNotExist"}]_vars

\* this step was an HTTP upload whose body was longer than the limit
BodyTooLarge ==
  /\ last'.op = "upload"
  /\ maxFileSize > 0
  /\ NewIds # {}
  /\ fault'.at = "blob_copy"

\* C25: an HTTP upload whose body exceeds the limit (limit > 0) is answered
\* with an error and stores nothing: no blob and no metadata under the id
\* generated for it, and List of every owner as before.
C25_TooLargeCommitsNothing ==
  [][BodyTooLarge =>
       /\ last'.status = "500"
       /\ \A id \in NewIds : id \notin Present(store')
       /\ \A t \in Tokens : List(backend, store', t) = List(backend, store, t)]_vars

\* an upload over the limit was refused while the store held an item
C25_Witness ==
  /\ last = [op |-> "upload", status |-> "500"]
  /\ maxFileSize > 0
  /\ fault.at = "blob_copy"
  /\ StoredIds # {}

\* C26: every stored item has a non-empty owner_token, no write handle was
\* opened under the empty token, and an upload presenting the empty token is
\* answered 401.
C26_OwnerNeverEmpty ==
  /\ \A id \in DOMAIN store.meta :
       store.meta[id].parses => DecodeItem(store.meta[id]).owner_token # <<>>
  /\ \A c \in Conns : handles[c].kind = "write" => handles[c].token # <<>>

\* C27: the render_mode of every stored item is one of auto, raw, render,
\* whatever the render parameter of the upload was.
C27_RenderModeInEnum ==
  \A id \in DOMAIN store.meta :
    store.meta[id].parses => DecodeItem(store.meta[id]).render_mode \in RenderModes

\* the multiplier of a unit
UnitSize(unit) ==
  CASE unit = <<"K", "B">> -> KB [] unit = <<"M", "B">> -> MB
    [] unit = <<"G", "B">> -> GB [] OTHER -> 1

\* C28: the limit parsed from the configuration is 0 exactly for the empty
\* string and "0"; a number n followed by KB, MB, GB is n*1024, n*1024^2,
\* n*1024^3, and n alone or followed by B is n.
C28_ParseSize ==
  last.op = "New" =>
    /\ maxFileSize = 0 <=> last.size \in {<<>>, <<"0">>}
    /\ \A n \in 1..2, unit \in {<<>>, <<"B">>, <<"K", "B">>, <<"M", "B">>, <<"G", "B">>} :
         last.size = <<Digits[n + 1]>> \o unit => maxFileSize = n * UnitSize(unit)

\* C29: between any two medium accesses of interleaved Put and Delete calls,
\* an id whose metadata is there has its blob there, as long as the size the
\* metadata records, and no Get finds metadata without its blob.
C29_MetaImpliesBlob ==
  /\ \A id \in DOMAIN store.meta :
       store.meta[id].parses =>
         /\ id \in DOMAIN store.files
         /\ Len(store.files[id]) = DecodeItem(store.meta[id]).size
  /\ last.op = "Get" => last.status \notin {"file not found", "failed to get file"}

\* C30: a Write or a Close on a write handle that was closed before leaves the
\* handle closed, makes no Put (no id is generated, the count of Puts of the
\* handle stays) and leaves the store, so the committed item, as it was.
C30_ClosedStaysClosed ==
  [][\A c \in Conns :
       LET f == handles[c]
           g == handles'[c]
       IN (f.kind = "write" /\ f.closed /\ last'.op \in {"write", "close"})
            => /\ g.closed
               /\ g.putCalls = f.putCalls /\ g.id = f.id
               /\ usedIds' = usedIds /\ puts' = puts
               /\ store' = store]_vars

\* C30 witness: bytes were written to a handle after its Close, and the item
\* the Close committed is stored
C30_Witness ==
  /\ last = [op |-> "write", status |-> "nil"]
  /\ \E c \in Conns :
       /\ handles[c].kind = "write" /\ handles[c].closed /\ handles[c].putCalls = 1
       /\ handles[c].buffer # <<>>
       /\ handles[c].id \in StoredIds

\* C31: each write handle that was closed committed an item of its own: the
\* ids of two handles differ, and each item holds the bytes its own handle
\* accepted and the token its own handle was opened with.
C31_HandlesCommitTheirOwn ==
  \A c \in Conns :
    (handles[c].kind = "write" /\ handles[c].putCalls = 1) =>
      LET g == Get(backend, store, handles[c].id)
      IN /\ g.err = "nil"
         /\ g.data = handles[c].written
         /\ g.item.size = Len(handles[c].written)
         /\ g.item.owner_token = handles[c].token
         /\ \A d \in Conns \ {c} :
              (handles[d].kind = "write" /\ handles[d].putCalls = 1)
                => handles[d].id # handles[c].id

\* C31 witness: two handles under one name, of two owners, written in turns
\* with different bytes, both closed
C31_Witness ==
  /\ \A c \in Conns : handles[c].kind = "write" /\ handles[c].putCalls = 1
  /\ handles["c1"].name = handles["c2"].name
  /\ handles["c1"].token # handles["c2"].token
  /\ handles["c1"].written = <<0, 97>>
  /\ handles["c2"].written = <<97>>

\* a sequence of items without the item of one id
Without(items, id) == SelectSeq(items, LAMBDA it : it.id # id)

\* C32: a RemoveAll that succeeds removes one item, blob and metadata, the
\* one the lookup of Stat finds under that name in the same store; every
\* other item stays as it is, the owner's List afterwards is the List before
\* without that item, and Stat of the name then finds the next item of that
\* name in List order, or nothing when there is none.
C32_RemoveAllRemovesTheResolved ==
  \A t \in Tokens : \A path \in RemovePaths :
    LET name == CleanPath(path)
        r == RemoveAll(backend, store, t, path, NoFault)
        f == FindByFilename(backend, store, t, name)
        before == List(backend, store, t).items
        next == FirstNamed(Without(before, r.id), name)
        st == Stat(backend, r.store, t, path, now)
    IN (r.err = "nil" /\ r.id # 0) =>
         /\ f.err = "nil" /\ f.item.id = r.id
         /\ Stat(backend, store, t, path, now) = [err |-> "nil", info |-> ItemInfo(f.item)]
         /\ Present(r.store) = Present(store) \ {r.id}
         /\ \A id \in Present(r.store) : Intact(store, r.store, id)
         /\ List(backend, r.store, t).items = Without(before, r.id)
         /\ st = IF next.err = "nil" THEN [err |-> "nil", info |-> ItemInfo(next.item)]
                 ELSE [err |-> "ErrNotExist"]

\* C32 witness: an owner has two items shown under the name "a", of
\* different content, and a RemoveAll of that name succeeds
C32_Witness ==
  \E t \in Tokens :
    /\ Cardinality(Named(t, <<"a">>)) = 2
    /\ \E x \in Named(t, <<"a">>), y \in Named(t, <<"a">>) : puts[x].data # puts[y].data
    /\ RemoveAll(backend, store, t, <<Slash, "a">>, NoFault).err = "nil"

\* C33: every child name Readdir returns on a root handle opened in a store
\* is a name Stat finds in that store, and Stat reports the same name; for an
\* item without filename that name is the id.
C33_StatAgreesWithReaddir ==
  \A t \in Tokens :
    LET d == OpenRootDir(backend, store, t, now)
        page == Readdir(d, 0).result
    IN \A i \in DOMAIN page :
         LET st == Stat(backend, store, t, <<Slash>> \o page[i].name, now)
         IN st.err = "nil" /\ st.info.name = page[i].name

\* C34: once a read handle is open, whatever is uploaded or deleted, its
\* bytes stay the bytes it was opened with; a Read returns the bytes of that
\* copy from the index on and moves the index past them; a Write on it is
\* refused and changes neither the handle nor the store.
C34_ReadHandleServesItsCopy ==
  [][\A c \in Conns :
       LET f == handles[c]
           g == handles'[c]
       IN (f.kind = "read" /\ last'.op # "openfile") =>
            /\ g.kind = "read" /\ g.data = f.data
            /\ last'.op = "read" =>
                 /\ g.out = SubSeq(f.data, f.off + 1, g.off)
                 /\ (last'.status = "EOF") = (f.off >= Len(f.data))
            /\ last'.op = "filewrite" =>
                 (last'.status = "ErrInvalid" /\ g = f /\ store' = store)]_vars

\* C34 witness: a Read has returned bytes of an item that was deleted after
\* the handle was opened
C34_Witness ==
  /\ last = [op |-> "read", status |-> "nil"]
  /\ \E c \in Conns :
       /\ handles[c].kind = "read"
       /\ handles[c].out # <<>>
       /\ handles[c].id \notin Present(store)

\* C35: a step changes the store, a blob or a metadata record, only if it is
\* an HTTP upload, an HTTP delete, a RemoveAll or the first Close of a write
\* handle; Get, GetMeta, List, Stat, every OpenFile, Readdir, Read, Seek and
\* Write leave it as it is, and Stat, computed in any state, touches nothing.
C35_ReadsLeaveTheStore ==
  [][store' # store =>
       \/ last'.op \in {"upload", "delete", "removeall"}
       \/ /\ last'.op = "close"
          /\ \E c \in Conns : /\ handles[c].kind = "write" /\ ~handles[c].closed
                              /\ handles'[c].closed]_vars

\* C35 witness: bytes were written to an open write handle while an item is
\* stored
C35_Witness ==
  /\ last = [op |-> "write", status |-> "nil"]
  /\ StoredIds # {}
  /\ \E c \in Conns : /\ handles[c].kind = "write" /\ ~handles[c].closed
                      /\ handles[c].buffer # <<>>

\* C36: on the filesystem backend List returns no error whatever metadata
\* records cannot be parsed, the record of a Put that has created its
\* metadata file and not yet written it among them, or cannot be read; it
\* returns the owner's items whose records parse and passes over the others.
C36_ListSkipsBadRecords ==
  backend = "filesystem" =>
    \A t \in Tokens :
      LET l == List(backend, store, t)
      IN /\ l.err = "nil"
         /\ IdsOf(l.items) = {id \in DOMAIN store.meta :
                                /\ store.meta[id].parses
                                /\ DecodeItem(store.meta[id]).owner_token = t}
         /\ Len(l.items) = Cardinality(IdsOf(l.items))
         /\ ListOn(backend, store, t, "meta_read") = [err |-> "nil", items |-> <<>>]

\* C36 witness: a Put has created its metadata file and not yet written it
\* while an item of the same owner is stored and listed
C36_Witness ==
  /\ backend = "filesystem"
  /\ \E p \in Procs :
       /\ calls[p].op = "Put" /\ calls[p].pc = "meta"
       /\ calls[p].id \in DOMAIN store.meta
       /\ ~store.meta[calls[p].id].parses
       /\ Len(List(backend, store, calls[p].item.owner_token).items) = 1

\* C37: the filename of every item a write handle committed holds no '/'.
C37_FlatNames ==
  \A c \in Committed :
    LET name == Get(backend, store, handles[c].id).item.filename
    IN \A i \in DOMAIN name : name[i] # Slash

\* C38: a WebDAV request without Basic credentials, or whose password is not
\* a configured token, is answered 401 without a call of the file system and
\* leaves the store; two requests that differ in the user-id only get the
\* same answer and leave the same store.
C38_UsernameIgnored ==
  \A method \in {"DELETE", "PROPFIND"} : \A path \in {<<Slash>>, <<Slash, "a">>} :
    /\ \A h \in AuthHeaders :
         (~BasicAuth(h).ok \/ BasicAuth(h).password \notin authTokens)
           => DavRequest(backend, store, h, method, path, now)
                = [status |-> "401", store |-> store, called |-> FALSE]
    /\ \A pw \in Passwords : \A u \in Usernames : \A v \in Usernames :
         DavRequest(backend, store, BasicHeader(u, pw), method, path, now)
           = DavRequest(backend, store, BasicHeader(v, pw), method, path, now)
    /\ \A u \in Usernames : \A t \in Tokens :
         DavRequest(backend, store, BasicHeader(u, t), method, path, now).called

\* C38 witness: a DELETE was answered 401 while both owners have an item
\* named "a" stored, which a DELETE under either token would remove
C38_Witness ==
  /\ last = [op |-> "DELETE", status |-> "401"]
  /\ \A t \in Tokens :
       DavRequest(backend, store, BasicHeader(<<"u">>, t), "DELETE", <<Slash, "a">>, now).store
         # store

\* ---------------------------------------------------------- terminal UI
\* the token of the CLI's configuration and the keys parseKey tells apart
\* ("q" and ctrl-c end the process and are left out)
TuiToken == <<"A">>
Keys == {"up", "down", "enter", "d", "r", "y", "n", "escape", "unknown"}

\* render: while loading it draws "Loading..." and neither the list nor the
\* prompt; otherwise the list with its selected line, and the prompt when
\* confirmDelete is set and the selected item exists
Render(s) ==
  [s EXCEPT !.shown =
     IF s.loading
       THEN [loading |-> TRUE, items |-> <<>>, selectedIndex |-> 0, confirmDelete |-> FALSE]
       ELSE [loading |-> FALSE, items |-> s.items, selectedIndex |-> s.selectedIndex,
             confirmDelete |-> s.confirmDelete /\ s.selectedIndex + 1 \in DOMAIN s.items]]

\* state.items[state.selectedIndex] is defined
HasSelected(s) == s.selectedIndex + 1 \in DOMAIN s.items

\* the request a handler awaits: its kind, the id it names, and the key
\* whose handler goes on when the request and what follows it are over
Request(kind, id, cont) == [kind |-> kind, id |-> id, cont |-> cont]

\* the requests in flight without the i-th
Settled(pending, i) ==
  SubSeq(pending, 1, i - 1) \o SubSeq(pending, i + 1, Len(pending))

\* the key's handler sends a request and awaits its response
Awaits(s, key) ==
  \/ s.confirmDelete /\ key = "y" /\ HasSelected(s)
  \/ ~s.confirmDelete /\ key = "r"

\* the keypress callback up to its first await or to its end; copyToClipboard
\* changes no field of the state but the message
OnKeypress(s, key) ==
  IF s.confirmDelete
    THEN IF key = "y"
           THEN IF HasSelected(s)
                  THEN [s EXCEPT !.pending =
                                   Append(@, Request("delete", s.items[s.selectedIndex + 1], "y")),
                                 !.requests = @ + 1,
                                 !.sentId = s.items[s.selectedIndex + 1]]
                  ELSE Render([s EXCEPT !.confirmDelete = FALSE])
           ELSE IF key \in {"n", "escape"}
                  THEN Render([s EXCEPT !.confirmDelete = FALSE])
                  ELSE Render(s)
    ELSE CASE key = "up" ->
                Render([s EXCEPT !.selectedIndex = IF @ > 0 THEN @ - 1 ELSE @])
           [] key = "down" ->
                Render([s EXCEPT !.selectedIndex = IF @ < Len(s.items) - 1 THEN @ + 1 ELSE @])
           [] key = "d" ->
                IF HasSelected(s)
                  THEN Render([s EXCEPT !.confirmDelete = TRUE, !.requests = 0])
                  ELSE Render(s)
           [] key = "r" ->
                [Render([s EXCEPT !.loading = TRUE])
                   EXCEPT !.error = FALSE, !.pending = Append(@, Request("list", 0, "r"))]
           [] OTHER -> Render(s)

\* a key arrives: the callback runs whatever requests are in flight
Keypress(key) ==
  /\ tui' = OnKeypress(tui, key)
  /\ last' = [op |-> "key", status |-> key]
  /\ UNCHANGED <<authTokens, calls, backend, maxFileSize, store, usedIds, now, handles,
                 puts, fault>>

\* fetchItems after its fetch, and then the handler that awaited it: the
\* items are replaced, the selection is clamped, the "y" handler leaves
\* confirm-delete mode, and the handler renders
FetchItemsEnd(s, i, l) ==
  LET ids == [k \in 1..Len(l.items) |-> l.items[k].id]
      t == IF l.err # "nil"
             THEN [s EXCEPT !.error = TRUE, !.loading = FALSE]
             ELSE [s EXCEPT !.items = ids, !.loading = FALSE,
                            !.selectedIndex =
                              IF @ >= Len(ids)
                                THEN (IF Len(ids) - 1 > 0 THEN Len(ids) - 1 ELSE 0)
                                ELSE @]
  IN Render([t EXCEPT !.confirmDelete = IF s.pending[i].cont = "y" THEN FALSE ELSE @,
                      !.pending = Settled(s.pending, i)])

\* the server answers the i-th request in flight, a list request
ListResponds(i) ==
  /\ i \in DOMAIN tui.pending
  /\ tui.pending[i].kind = "list"
  /\ LET l == List(backend, store, TuiToken)
     IN /\ tui' = FetchItemsEnd(tui, i, l)
        /\ last' = [op |-> "list", status |-> IF l.err # "nil" THEN "500" ELSE "200"]
  /\ UNCHANGED <<authTokens, calls, backend, maxFileSize, store, usedIds, now, handles,
                 puts, fault>>

\* the server answers the i-th request in flight, a delete request:
\* deleteItem records the error of a refusal and returns to the handler,
\* which leaves confirm-delete mode and renders; after a success it calls
\* fetchItems, which sets loading and sends the list request
DeleteResponds(i) ==
  /\ i \in DOMAIN tui.pending
  /\ tui.pending[i].kind = "delete"
  /\ LET r == DeleteRequest(backend, store, TuiToken, tui.pending[i].id, NoFault)
     IN /\ tui' = IF r.status = "204"
                    THEN [tui EXCEPT !.pending[i] = Request("list", 0, "y"),
                                     !.loading = TRUE, !.error = FALSE]
                    ELSE Render([tui EXCEPT !.error = TRUE, !.confirmDelete = FALSE,
                                            !.pending = Settled(tui.pending, i)])
        /\ store' = r.store
        /\ puts' = IF r.called THEN Unlogged(tui.pending[i].id) ELSE puts
        /\ last' = [op |-> "delete", status |-> r.status]
  /\ fault' = NoFault
  /\ UNCHANGED <<authTokens, calls, backend, maxFileSize, usedIds, now, handles>>

\* a key arrives while fewer than room requests are in flight, or a key
\* whose handler sends none
KeyStep(keys, room) ==
  \E key \in keys :
    /\ Awaits(tui, key) => Len(tui.pending) < room
    /\ Keypress(key)

ListRespondsStep == \E i \in 1..MaxPending : ListResponds(i)

DeleteRespondsStep == \E i \in 1..MaxPending : DeleteResponds(i)

\* the terminal UI of one user against the server, whose uploads come from
\* the user's other clients; responses arrive in any order
NextTui ==
  \/ UploadStep({TuiToken}, {<<"a">>}, {<<>>}, {<<>>}, {<<97>>}, {NoFault})
  \/ KeyStep(Keys, MaxPending)
  \/ ListRespondsStep
  \/ DeleteRespondsStep

SpecTui == Init /\ [][NextTui]_vars

\* a step that sends a delete request
DeleteSent ==
  /\ Len(tui'.pending) = Len(tui.pending) + 1
  /\ tui'.pending[Len(tui'.pending)].kind = "delete"

\* C39: in the terminal UI, whatever requests are in flight, a delete request
\* is sent only by key "y" while confirm-delete mode is on, the mode is
\* entered only by "d" with an existing selected item, "n" and escape leave
\* it and send nothing, and one confirmation sends at most one delete
\* request, naming the item the screen shows as selected.
C39_DeleteOnlyAsConfirmed ==
  [][/\ DeleteSent =>
          /\ last'.op = "key" /\ last'.status = "y"
          /\ tui.confirmDelete
          /\ tui.shown.selectedIndex + 1 \in DOMAIN tui.shown.items
          /\ tui'.sentId = tui.shown.items[tui.shown.selectedIndex + 1]
          /\ tui'.requests <= 1
     /\ (~tui.confirmDelete /\ tui'.confirmDelete) =>
          /\ last'.op = "key" /\ last'.status = "d"
          /\ HasSelected(tui)
     /\ (last'.op = "key" /\ last'.status \in {"n", "escape"}) =>
          /\ ~tui'.confirmDelete
          /\ ~DeleteSent]_vars

====
